---- MODULE Spec2Model ----
(***************************************************************************)
(* Incremental synchronisation and manifest subsystem of the Blood on the  *)
(* Clocktower data sync: staleness policy, preservation, entity store,     *)
(* content hash and the sync orchestrator (character_scraper.main).        *)
(*                                                                         *)
(* Python dicts are modelled as sequences of <<key, value>> pairs (Python  *)
(* dicts keep insertion order and json.dump writes keys in that order).    *)
(* Text whose content the code inspects (flavor) is a sequence of          *)
(* one-character strings; opaque text (name, ability) is a string.         *)
(***************************************************************************)
EXTENDS Naturals, Sequences, FiniteSets, TLC

VARIABLES
    character,      \* harness: the entity handed to the function under test
    ret,            \* harness: the last call, its return value, the entity before it
    dataset,        \* harness: the list of entities handed to a manifest builder,
                    \*          or the directory handed to the snapshot load
    previous_data,  \* map id -> record loaded by load_previous_character_data
    pc,             \* main(): the step the run is at
    args,           \* main(): the parsed command line (reminders, flavor)
    characters,     \* main(): the scraped dict id -> entity, mutated by the save
    wiki,           \* the wiki collaborator's answers of this run, per id
    files,          \* data/characters/<edition>/<id>.json: id -> record on disk
    all_file,       \* data/characters/all_characters.json: the list (empty before the first save)
    manifest,       \* data/manifest.json: the manifest, or NoManifest
    todo,           \* main(): the editions the reminder loop has still to visit
    attempt,        \* history: per id, what the fetches of this run did
    runs,           \* history: the number of runs started
    run_start,      \* history: files as they were when this run started
    prev_out,       \* history: combined file and contentHash the previous run left
    same_inputs     \* history: this run got the inputs of the previous run

harnessVars == <<character, ret, dataset>>
pipeVars ==
    <<pc, args, characters, wiki, files, all_file, manifest, todo, attempt,
      runs, run_start, prev_out, same_inputs>>

----------------------------------------------------------------------------
(* Python dict primitives over sequences of <<key, value>> pairs.          *)

Keys(d) == {d[i][1] : i \in DOMAIN d}

Has(d, k) == \E i \in DOMAIN d : d[i][1] = k

\* d.get(k, default)
Get(d, k, default) ==
    IF Has(d, k) THEN d[CHOOSE i \in DOMAIN d : d[i][1] = k][2] ELSE default

\* d[k] = v : an existing key keeps its position, a new key goes last
Put(d, k, v) ==
    IF Has(d, k)
    THEN [i \in 1..Len(d) |-> IF d[i][1] = k THEN <<k, v>> ELSE d[i]]
    ELSE Append(d, <<k, v>>)

\* del d[k] (no effect when k is absent)
Del(d, k) == SelectSeq(d, LAMBDA p : p[1] # k)

\* Python dict equality: same keys, same values, whatever the order
DictEq(d, e) ==
    /\ Keys(d) = Keys(e)
    /\ \A k \in Keys(d) : Get(d, k, "") = Get(e, k, "")

----------------------------------------------------------------------------
(* Text helpers: str.startswith, the `in` substring test.                  *)

StartsWith(s, p) == Len(s) >= Len(p) /\ SubSeq(s, 1, Len(p)) = p

Contains(s, p) ==
    \E i \in 1..(Len(s) + 1) :
        i + Len(p) - 1 <= Len(s) /\ SubSeq(s, i, i + Len(p) - 1) = p

MIN_FLAVOR_LENGTH == 3

garbage_patterns ==
    { <<">", "\n", "<", "h", "e", "a", "d", ">">>,
      <<"<", "m", "e", "t", "a", " ", "c", "h", "a", "r", "s", "e", "t">>,
      <<"<", "!", "D", "O", "C", "T", "Y", "P", "E">>,
      <<"<", "h", "t", "m", "l">>,
      <<"<", "s", "c", "r", "i", "p", "t">> }

is_valid_flavor(flavor) ==
    IF flavor = <<>> THEN FALSE
    ELSE IF \E pattern \in garbage_patterns : Contains(flavor, pattern) THEN FALSE
    ELSE StartsWith(flavor, <<"\"">>) /\ Len(flavor) >= MIN_FLAVOR_LENGTH

----------------------------------------------------------------------------
(* Staleness policy.                                                       *)

needs_reminder_update_IgnoresName(c, pd) ==
    LET char_id == Get(c, "id", "") IN
    IF char_id = "" THEN TRUE
    ELSE IF char_id \notin DOMAIN pd THEN TRUE
    ELSE LET previous == pd[char_id] IN
         IF ~Get(previous, "_remindersFetched", FALSE) THEN TRUE
         ELSE Get(c, "ability", "") # Get(previous, "ability", "")

needs_reminder_update_ReadsFlavor(c, pd) ==
    LET char_id == Get(c, "id", "") IN
    IF char_id = "" THEN TRUE
    ELSE IF char_id \notin DOMAIN pd THEN TRUE
    ELSE LET previous == pd[char_id] IN
         IF ~Get(previous, "_remindersFetched", FALSE) THEN TRUE
         ELSE IF Get(previous, "flavor", <<>>) = <<>> THEN TRUE
         ELSE IF Get(c, "ability", "") # Get(previous, "ability", "") THEN TRUE
         ELSE Get(c, "name", "") # Get(previous, "name", "")

needs_reminder_update_NewIsFalse(c, pd) ==
    LET char_id == Get(c, "id", "") IN
    IF char_id = "" THEN TRUE
    ELSE IF char_id \notin DOMAIN pd THEN FALSE
    ELSE LET previous == pd[char_id] IN
         IF ~Get(previous, "_remindersFetched", FALSE) THEN TRUE
         ELSE IF Get(c, "ability", "") # Get(previous, "ability", "") THEN TRUE
         ELSE Get(c, "name", "") # Get(previous, "name", "")

needs_reminder_update(c, pd) ==
    LET char_id == Get(c, "id", "") IN
    IF char_id = "" THEN TRUE
    ELSE IF char_id \notin DOMAIN pd THEN TRUE
    ELSE LET previous == pd[char_id] IN
         IF ~Get(previous, "_remindersFetched", FALSE) THEN TRUE
         ELSE IF Get(c, "ability", "") # Get(previous, "ability", "") THEN TRUE
         ELSE IF Get(c, "name", "") # Get(previous, "name", "") THEN TRUE
         ELSE FALSE

needs_flavor_update_NoCase3(c, pd) ==
    LET char_id == Get(c, "id", "") IN
    IF char_id \notin DOMAIN pd THEN TRUE
    ELSE LET previous        == pd[char_id]
             current_flavor  == Get(c, "flavor", <<>>)
             previous_flavor == Get(previous, "flavor", <<>>)
         IN  IF ~is_valid_flavor(current_flavor) /\ ~is_valid_flavor(previous_flavor)
             THEN TRUE
             ELSE IF Get(c, "ability", "") # Get(previous, "ability", "") THEN TRUE
             ELSE Get(c, "name", "") # Get(previous, "name", "")

needs_flavor_update_AlwaysWhenCurrentEmpty(c, pd) ==
    LET char_id == Get(c, "id", "") IN
    IF char_id \notin DOMAIN pd THEN TRUE
    ELSE LET previous        == pd[char_id]
             current_flavor  == Get(c, "flavor", <<>>)
             previous_flavor == Get(previous, "flavor", <<>>)
         IN  IF ~is_valid_flavor(current_flavor) THEN TRUE
             ELSE IF previous_flavor # <<>> /\ ~is_valid_flavor(previous_flavor) THEN TRUE
             ELSE IF Get(c, "ability", "") # Get(previous, "ability", "") THEN TRUE
             ELSE Get(c, "name", "") # Get(previous, "name", "")

needs_flavor_update(c, pd) ==
    LET char_id == Get(c, "id", "") IN
    IF char_id \notin DOMAIN pd THEN TRUE
    ELSE LET previous        == pd[char_id]
             current_flavor  == Get(c, "flavor", <<>>)
             previous_flavor == Get(previous, "flavor", <<>>)
         IN  IF ~is_valid_flavor(current_flavor) /\ ~is_valid_flavor(previous_flavor)
             THEN TRUE
             ELSE IF previous_flavor # <<>> /\ ~is_valid_flavor(previous_flavor) THEN TRUE
             ELSE IF Get(c, "ability", "") # Get(previous, "ability", "") THEN TRUE
             ELSE Get(c, "name", "") # Get(previous, "name", "")

----------------------------------------------------------------------------
(* Preservation. Each operator returns <<return value, entity afterwards>>. *)

preserve_flavor_text_AnyNonEmpty(c, pd) ==
    LET char_id == Get(c, "id", "") IN
    IF char_id \in DOMAIN pd /\ Get(pd[char_id], "flavor", <<>>) # <<>>
    THEN <<TRUE, Put(c, "flavor", Get(pd[char_id], "flavor", <<>>))>>
    ELSE <<FALSE, c>>

preserve_flavor_text(c, pd) ==
    LET char_id == Get(c, "id", "") IN
    IF char_id \in DOMAIN pd /\ is_valid_flavor(Get(pd[char_id], "flavor", <<>>))
    THEN <<TRUE, Put(c, "flavor", Get(pd[char_id], "flavor", <<>>))>>
    ELSE <<FALSE, c>>

preserve_reminders_CopiesAbility(c, pd) ==
    LET char_id == Get(c, "id", "") IN
    IF char_id = "" \/ char_id \notin DOMAIN pd THEN <<FALSE, c>>
    ELSE LET previous == pd[char_id] IN
         IF Get(previous, "_remindersFetched", FALSE)
         THEN <<TRUE,
                Put(Put(Put(Put(c, "reminders", Get(previous, "reminders", <<>>)),
                            "remindersGlobal", Get(previous, "remindersGlobal", <<>>)),
                        "_remindersFetched", TRUE),
                    "ability", Get(previous, "ability", ""))>>
         ELSE <<FALSE, c>>

preserve_reminders(c, pd) ==
    LET char_id == Get(c, "id", "") IN
    IF char_id = "" \/ char_id \notin DOMAIN pd THEN <<FALSE, c>>
    ELSE LET previous == pd[char_id] IN
         IF Get(previous, "_remindersFetched", FALSE)
         THEN <<TRUE,
                Put(Put(Put(c, "reminders", Get(previous, "reminders", <<>>)),
                        "remindersGlobal", Get(previous, "remindersGlobal", <<>>)),
                    "_remindersFetched", TRUE)>>
         ELSE <<FALSE, c>>

----------------------------------------------------------------------------
(* Writers: internal fields, canonical field order, content hash.          *)

\* the keys the model uses that start with an underscore (k.startswith("_"))
InternalKeys == {"_imageUrl", "_remindersFetched"}

FIELD_ORDER ==
    <<"id", "name", "edition", "reminders", "remindersGlobal", "ability",
      "flavor", "jinxes", "_remindersFetched">>

\* the keys of the model in the order sorted() gives them
SortedKeys ==
    <<"_imageUrl", "_remindersFetched", "ability", "edition", "flavor", "id",
      "jinxes", "name", "reason", "reminders", "remindersGlobal">>

\* the entries of d whose key is in order, in the order of order
InOrderOf(d, order) ==
    LET present == SelectSeq(order, LAMBDA k : Has(d, k))
    IN  [i \in 1..Len(present) |-> <<present[i], Get(d, present[i], "")>>]

order_character_fields(char) ==
    InOrderOf(char, FIELD_ORDER)
        \o SelectSeq(char, LAMBDA p : \A i \in DOMAIN FIELD_ORDER : FIELD_ORDER[i] # p[1])

\* strip_internal_fields keeping _remindersFetched whatever the caller asks
strip_internal_fields_KeepsFlag(char, preserve_reminder_flag) ==
    SelectSeq(char, LAMBDA p :
        \/ p[1] \notin InternalKeys
        \/ p[1] = "_remindersFetched")

strip_internal_fields(char, preserve_reminder_flag) ==
    SelectSeq(char, LAMBDA p :
        \/ p[1] \notin InternalKeys
        \/ (preserve_reminder_flag /\ p[1] = "_remindersFetched"))

strip_internal_fields_for_hash(char) ==
    SelectSeq(char, LAMBDA p : p[1] \notin InternalKeys)

JsonSortedDict_KeepsOrder(d) == d

\* json.dumps(..., sort_keys=True) of one dict: its keys in sorted order, and
\* the keys of the dicts nested in it (the jinx entries) in sorted order
JsonSortedDict(d) ==
    LET top == InOrderOf(d, SortedKeys) IN
    [i \in 1..Len(top) |->
        IF top[i][1] = "jinxes"
        THEN <<"jinxes", [j \in 1..Len(top[i][2]) |-> InOrderOf(top[i][2][j], SortedKeys)]>>
        ELSE top[i]]

\* json.dumps(list, sort_keys=True): the keys of every record in sorted order
JsonDumpsSorted(chars) == [i \in 1..Len(chars) |-> JsonSortedDict(chars[i])]

\* hashlib.sha256(text).hexdigest(): collision-free over the texts of the model
Sha256Hex(text) == <<"sha256", text>>
\* hexdigest()[:16], taken collision-free as well
Sha256Hex16(text) == <<"sha256[:16]", text>>

SeqSum(s) ==
    LET RECURSIVE Sum(_)
        Sum(n) == IF n = 0 THEN 0 ELSE s[n] + Sum(n - 1)
    IN  Sum(Len(s))

Range(s) == {s[i] : i \in DOMAIN s}

\* the editions and the ids of the model in the order sorted() gives them
SortedEditionNames == <<"bmr", "tb">>
SortedIdNames == <<"a", "b", "c", "d">>

\* the manifest builders' loop: edition -> ids, keys and ids in the order met
EditionsLoop(chars) ==
    LET RECURSIVE Loop(_)
        Loop(n) ==
            IF n = 0 THEN <<>>
            ELSE LET d == Loop(n - 1)
                     edition == Get(chars[n], "edition", "")
                 IN  Put(d, edition, Append(Get(d, edition, <<>>), Get(chars[n], "id", "")))
    IN  Loop(Len(chars))

\* the manifest builders' loop: edition -> number of reminder tokens
EditionRemindersLoop(chars) ==
    LET RECURSIVE Loop(_)
        Loop(n) ==
            IF n = 0 THEN <<>>
            ELSE LET d == Loop(n - 1)
                     edition == Get(chars[n], "edition", "")
                 IN  Put(d, edition,
                         Get(d, edition, 0) + Len(Get(chars[n], "reminders", <<>>)))
    IN  Loop(Len(chars))

SortEditions_KeepsOrder(editions) == editions

\* {k: sorted(v) for k, v in sorted(editions.items())}
SortEditions(editions) ==
    LET ks == SelectSeq(SortedEditionNames, LAMBDA k : Has(editions, k)) IN
    [i \in 1..Len(ks) |->
        <<ks[i], SelectSeq(SortedIdNames,
                           LAMBDA x : x \in Range(Get(editions, ks[i], <<>>)))>>]

\* dict(sorted(edition_reminders.items()))
SortByKey(d) ==
    LET ks == SelectSeq(SortedEditionNames, LAMBDA k : Has(d, k)) IN
    [i \in 1..Len(ks) |-> <<ks[i], Get(d, ks[i], 0)>>]

\* {k: len(v) for k, v in editions.items()}
EditionCounts(editions) ==
    [i \in 1..Len(editions) |-> <<editions[i][1], Len(editions[i][2])>>]

RawJinxes(chars) ==
    SeqSum([i \in 1..Len(chars) |-> Len(Get(chars[i], "jinxes", <<>>))])

TotalReminders_CountsEntities(chars) == Len(chars)

TotalReminders(chars) ==
    SeqSum([i \in 1..Len(chars) |-> Len(Get(chars[i], "reminders", <<>>))])

TotalFlavor(chars) ==
    SeqSum([i \in 1..Len(chars) |->
               IF Get(chars[i], "flavor", <<>>) # <<>> THEN 1 ELSE 0])

\* what a builder's call ends in when its loop raises instead of returning
KeyError == [raised |-> "KeyError"]

\* the builders' loop subscripts char["edition"] and char["id"]
RaisesKeyError(chars) ==
    \E i \in 1..Len(chars) : ~Has(chars[i], "edition") \/ ~Has(chars[i], "id")

\* the manifest create_manifest writes for characters.values()
create_manifest(chars) ==
    IF RaisesKeyError(chars) THEN KeyError ELSE
    [ contentHash |->
          Sha256Hex16(JsonDumpsSorted(
              [i \in 1..Len(chars) |-> strip_internal_fields(chars[i], TRUE)])),
      total_characters |-> Len(chars),
      total_reminders |-> TotalReminders(chars),
      total_jinxes |-> RawJinxes(chars) \div 2,
      total_flavor |-> TotalFlavor(chars),
      editions |-> SortEditions(EditionsLoop(chars)),
      edition_counts |-> EditionCounts(SortEditions(EditionsLoop(chars))),
      edition_reminders |-> SortByKey(EditionRemindersLoop(chars)) ]

\* compute_manifest_stats, with contentHash as build_manifest names it
compute_manifest_stats(chars) ==
    IF RaisesKeyError(chars) THEN KeyError ELSE
    [ contentHash |->
          Sha256Hex(JsonDumpsSorted(
              [i \in 1..Len(chars) |-> strip_internal_fields_for_hash(chars[i])])),
      total_characters |->
          SeqSum([i \in 1..Len(SortEditions(EditionsLoop(chars))) |->
                     Len(SortEditions(EditionsLoop(chars))[i][2])]),
      total_reminders |-> TotalReminders(chars),
      total_jinxes |-> RawJinxes(chars) \div 2,
      total_flavor |-> TotalFlavor(chars),
      editions |-> SortEditions(EditionsLoop(chars)),
      edition_counts |-> EditionCounts(SortEditions(EditionsLoop(chars))),
      edition_reminders |-> SortByKey(EditionRemindersLoop(chars)) ]

\* the manifest create_dist_manifest writes for the list of characters.json
create_dist_manifest(chars) ==
    IF RaisesKeyError(chars) THEN KeyError ELSE
    [ contentHash |-> Sha256Hex16(JsonDumpsSorted(chars)),
      total_characters |-> Len(chars),
      total_reminders |-> TotalReminders(chars),
      total_jinxes |-> RawJinxes(chars) \div 2,
      total_flavor |-> TotalFlavor(chars),
      editions |-> SortEditions(EditionsLoop(chars)),
      edition_counts |-> EditionCounts(SortEditions(EditionsLoop(chars))),
      edition_reminders |-> SortByKey(EditionRemindersLoop(chars)) ]

\* verify_package hashing the records with their keys in file order
verify_package_Unsorted(m, chars) ==
    Sha256Hex16(chars) = m.contentHash

\* verify_package: the hash of characters.json against the manifest's
verify_package(m, chars) ==
    Sha256Hex16(JsonDumpsSorted(chars)) = m.contentHash

----------------------------------------------------------------------------
(* Policy harness: the inputs are drawn from bounded sets, each action     *)
(* applies one function of the policy to them.                             *)

FlavorDie          == <<"\"", "D", "i", "e", ".", "\"">>
FlavorHtml         == <<"<", "h", "t", "m", "l", ">", "x">>
FlavorQuotedScript == <<"\"", "<", "s", "c", "r", "i", "p", "t">>
FlavorBare         == <<"D", "i", "e">>
FlavorShort        == <<"\"", "\"">>

FlavorSamples ==
    {<<>>, FlavorDie, FlavorHtml, FlavorQuotedScript, FlavorBare, FlavorShort}

PolicyIds       == {"a", "b"}
PolicyNames     == {"N1", "N2"}
PolicyAbilities == {"A1", "A2"}
ReminderSamples == {<<>>, <<"DEAD">>}

\* optional trailing fields of a record: a set of dict suffixes
OptFlavor == {<<>>} \cup {<< <<"flavor", f>> >> : f \in FlavorSamples}
OptFlag(S) == {<<>>} \cup {<< <<"_remindersFetched", b>> >> : b \in S}

CurrentEntities ==
    { << <<"id", i>>, <<"name", n>>, <<"ability", a>>, <<"edition", "tb">>,
         <<"reminders", r>>, <<"remindersGlobal", <<>> >> >> \o fl \o fg :
      i \in PolicyIds, n \in PolicyNames, a \in PolicyAbilities,
      r \in ReminderSamples, fl \in OptFlavor, fg \in OptFlag({TRUE}) }

PreviousRecords ==
    { << <<"id", "a">>, <<"name", n>>, <<"edition", "tb">>,
         <<"reminders", r>>, <<"remindersGlobal", <<>> >>,
         <<"ability", a>> >> \o fl \o fg :
      n \in PolicyNames, a \in PolicyAbilities,
      r \in ReminderSamples, fl \in OptFlavor, fg \in OptFlag(BOOLEAN) }

PreviousDatas == {<<>>} \cup {[x \in {"a"} |-> p] : p \in PreviousRecords}

NoCall == [op |-> "none", val |-> FALSE, before |-> <<>>]

vars == <<harnessVars, previous_data, pipeVars>>


\* the orchestrator's variables while a harness runs
PipeIdle ==
    /\ pc = "harness"
    /\ args = [reminders |-> FALSE, flavor |-> FALSE]
    /\ characters = <<>>
    /\ wiki = <<>>
    /\ files = <<>>
    /\ all_file = <<>>
    /\ manifest = <<>>
    /\ todo = {}
    /\ attempt = <<>>
    /\ runs = 0
    /\ run_start = <<>>
    /\ prev_out = <<>>
    /\ same_inputs = FALSE

PolicyInit ==
    /\ character \in CurrentEntities
    /\ previous_data \in PreviousDatas
    /\ ret = NoCall
    /\ dataset = <<>>
    /\ PipeIdle

CallNeedsReminderUpdate ==
    /\ ret.op = "none"
    /\ ret' = [op |-> "needs_reminder_update",
               val |-> needs_reminder_update(character, previous_data),
               before |-> character]
    /\ UNCHANGED <<character, dataset, previous_data, pipeVars>>

CallNeedsFlavorUpdate ==
    /\ ret.op = "none"
    /\ ret' = [op |-> "needs_flavor_update",
               val |-> needs_flavor_update(character, previous_data),
               before |-> character]
    /\ UNCHANGED <<character, dataset, previous_data, pipeVars>>

CallPreserveFlavorText ==
    /\ ret.op = "none"
    /\ LET r == preserve_flavor_text(character, previous_data) IN
       /\ ret' = [op |-> "preserve_flavor_text", val |-> r[1], before |-> character]
       /\ character' = r[2]
    /\ UNCHANGED <<dataset, previous_data, pipeVars>>

CallPreserveReminders ==
    /\ ret.op = "none"
    /\ LET r == preserve_reminders(character, previous_data) IN
       /\ ret' = [op |-> "preserve_reminders", val |-> r[1], before |-> character]
       /\ character' = r[2]
    /\ UNCHANGED <<dataset, previous_data, pipeVars>>

PolicyNext ==
    \/ CallNeedsReminderUpdate
    \/ CallNeedsFlavorUpdate
    \/ CallPreserveFlavorText
    \/ CallPreserveReminders

SpecPolicy == PolicyInit /\ [][PolicyNext]_vars

----------------------------------------------------------------------------
(* Manifest harness: a dataset drawn from a bounded set is handed to each  *)
(* manifest builder.                                                       *)

HashIds      == {"a", "b"}
HashEditions == {"tb", "bmr"}

OptImageUrl == {<<>>, << <<"_imageUrl", "http://icon">> >>}

\* one entry of an entity's jinxes list
Jinx(id, reason) == << <<"id", id>>, <<"reason", reason>> >>

\* the jinxes field: absent, or one entry naming the other id
OptJinxes(i) ==
    {<<>>} \cup {<< <<"jinxes", <<Jinx(j, "R1")>> >> >> : j \in HashIds \ {i}}

HashEntities(i) ==
    { << <<"id", i>>, <<"name", "N1">>, <<"edition", e>>, <<"ability", "A1">> >>
         \o iu \o << <<"reminders", r>>, <<"flavor", f>> >> \o jx \o fg :
      e \in HashEditions, r \in ReminderSamples, f \in {<<>>, FlavorDie},
      iu \in OptImageUrl, jx \in OptJinxes(i), fg \in OptFlag(BOOLEAN) }

AllHashEntities == UNION {HashEntities(i) : i \in HashIds}

\* the values() of a dict keyed by id: one or two entities, ids distinct
Datasets ==
    {<<x>> : x \in AllHashEntities}
    \cup {p \in AllHashEntities \X AllHashEntities :
             Get(p[1], "id", "") # Get(p[2], "id", "")}

HashInit ==
    /\ dataset \in Datasets
    /\ ret = NoCall
    /\ character = <<>>
    /\ previous_data = <<>>
    /\ PipeIdle

CallCreateManifest ==
    /\ ret.op = "none"
    /\ ret' = [op |-> "create_manifest", val |-> create_manifest(dataset),
               before |-> <<>>]
    /\ UNCHANGED <<character, dataset, previous_data, pipeVars>>

CallComputeManifestStats ==
    /\ ret.op = "none"
    /\ ret' = [op |-> "compute_manifest_stats",
               val |-> compute_manifest_stats(dataset), before |-> <<>>]
    /\ UNCHANGED <<character, dataset, previous_data, pipeVars>>

CallCreateDistManifest ==
    /\ ret.op = "none"
    /\ ret' = [op |-> "create_dist_manifest",
               val |-> create_dist_manifest(dataset), before |-> <<>>]
    /\ UNCHANGED <<character, dataset, previous_data, pipeVars>>

HashNext ==
    \/ CallCreateManifest
    \/ CallComputeManifestStats
    \/ CallCreateDistManifest

SpecHash == HashInit /\ [][HashNext]_vars

\* the record with its internal fields replaced by the given ones
WithInternal(d, iu, fg) == strip_internal_fields_for_hash(d) \o iu \o fg

\* the datasets that differ from dataset only in internal fields
InternalVariants ==
    IF Len(dataset) = 1
    THEN { << WithInternal(dataset[1], iu, fg) >> :
             iu \in OptImageUrl, fg \in OptFlag(BOOLEAN) }
    ELSE { << WithInternal(dataset[1], iu, fg), WithInternal(dataset[2], iu2, fg2) >> :
             iu \in OptImageUrl, fg \in OptFlag(BOOLEAN),
             iu2 \in OptImageUrl, fg2 \in OptFlag(BOOLEAN) }

\* C2: datasets that differ only in underscore-prefixed fields of existing
\* entities (_remindersFetched, _imageUrl) get the same contentHash from each
\* manifest builder (create_manifest, compute_manifest_stats).
C2_HashIgnoresInternalFields ==
    /\ ret.op = "create_manifest" =>
          \A ds \in InternalVariants :
              create_manifest(ds).contentHash = ret.val.contentHash
    /\ ret.op = "compute_manifest_stats" =>
          \A ds \in InternalVariants :
              compute_manifest_stats(ds).contentHash = ret.val.contentHash

----------------------------------------------------------------------------
(* Properties of the staleness policy and of preservation (SpecPolicy).    *)

CurId   == Get(ret.before, "id", "")
IsKnown == CurId \in DOMAIN previous_data
Prev    == previous_data[CurId]
CalledNeeds == ret.op \in {"needs_reminder_update", "needs_flavor_update"}
SameSource ==
    /\ Get(ret.before, "ability", "") = Get(Prev, "ability", "")
    /\ Get(ret.before, "name", "") = Get(Prev, "name", "")

\* C4: an entity whose id is not a key of the previous data gets the verdict
\* true from needs_reminder_update and from needs_flavor_update, whatever its
\* other fields hold.
C4_NewEntityNeedsUpdate ==
    (CalledNeeds /\ ~IsKnown) => ret.val = TRUE

C4_Witness ==
    /\ ret.op = "needs_reminder_update"
    /\ ~IsKnown
    /\ previous_data # <<>>
    /\ Get(ret.before, "_remindersFetched", FALSE)
    /\ is_valid_flavor(Get(ret.before, "flavor", <<>>))
    /\ ret.val = TRUE

\* C5: a known entity with the category's cached value in good standing
\* (reminders: _remindersFetched true; flavor: previous flavor valid) and with
\* ability and name unchanged gets the verdict false for that category.
C5_NoUpdateNeeded ==
    /\ (ret.op = "needs_reminder_update" /\ IsKnown
            /\ Get(Prev, "_remindersFetched", FALSE) /\ SameSource)
          => ret.val = FALSE
    /\ (ret.op = "needs_flavor_update" /\ IsKnown
            /\ is_valid_flavor(Get(Prev, "flavor", <<>>)) /\ SameSource)
          => ret.val = FALSE

C5_Witness ==
    /\ ret.op = "needs_flavor_update"
    /\ IsKnown
    /\ is_valid_flavor(Get(Prev, "flavor", <<>>))
    /\ ~Has(ret.before, "flavor")
    /\ SameSource
    /\ ret.val = FALSE

\* C6: the reminders verdict is true when the previous record's
\* _remindersFetched is false or absent; the flavor verdict is true when the
\* previous flavor is non-empty but fails is_valid_flavor (raw HTML markup for
\* one); both even if name and ability are unchanged.
C6_NeverFetchedOrCorrupted ==
    /\ (ret.op = "needs_reminder_update" /\ IsKnown
            /\ ~Get(Prev, "_remindersFetched", FALSE))
          => ret.val = TRUE
    /\ (ret.op = "needs_flavor_update" /\ IsKnown
            /\ Get(Prev, "flavor", <<>>) # <<>>
            /\ ~is_valid_flavor(Get(Prev, "flavor", <<>>)))
          => ret.val = TRUE
    /\ (ret.op = "needs_flavor_update" /\ IsKnown
            /\ Get(Prev, "flavor", <<>>) = FlavorHtml)
          => ret.val = TRUE

C6_Witness ==
    /\ ret.op = "needs_flavor_update"
    /\ IsKnown
    /\ Get(Prev, "flavor", <<>>) = FlavorHtml
    /\ is_valid_flavor(Get(ret.before, "flavor", <<>>))
    /\ SameSource
    /\ ret.val = TRUE

\* C7: for a known entity whose ability or name differs from the previous
\* record's, both verdicts are true, even with the fetch flag true and a valid
\* previous value.
C7_ChangedSource ==
    (CalledNeeds /\ IsKnown /\ ~SameSource) => ret.val = TRUE

C7_Witness ==
    /\ ret.op = "needs_reminder_update"
    /\ IsKnown
    /\ Get(Prev, "_remindersFetched", FALSE)
    /\ is_valid_flavor(Get(Prev, "flavor", <<>>))
    /\ Get(ret.before, "ability", "") = Get(Prev, "ability", "")
    /\ Get(ret.before, "name", "") # Get(Prev, "name", "")
    /\ ret.val = TRUE

\* The same record with its flavor replaced (or removed).
WithFlavor(d, opt) == Del(d, "flavor") \o opt
\* The same record with its reminders and its _remindersFetched replaced.
WithReminders(d, r, opt) ==
    Del(Put(d, "reminders", r), "_remindersFetched") \o opt
PreviousWithReminders ==
    IF previous_data = <<>> THEN {previous_data}
    ELSE {[x \in DOMAIN previous_data |-> WithReminders(previous_data[x], r, fg)] :
            r \in ReminderSamples, fg \in OptFlag(BOOLEAN)}
PreviousWithFlavor ==
    IF previous_data = <<>> THEN {previous_data}
    ELSE {[x \in DOMAIN previous_data |-> WithFlavor(previous_data[x], fl)] :
            fl \in OptFlavor}

\* C8: the verdicts are independent per category: changing only the flavor of
\* the current or of the previous record never changes the reminders verdict,
\* and changing only reminders or _remindersFetched never changes the flavor
\* verdict.
C8_IndependentPerCategory ==
    /\ ret.op = "needs_reminder_update" =>
          \A fl \in OptFlavor : \A pd \in PreviousWithFlavor :
              needs_reminder_update(WithFlavor(ret.before, fl), pd) = ret.val
    /\ ret.op = "needs_flavor_update" =>
          \A r \in ReminderSamples : \A fg \in OptFlag(BOOLEAN) :
              \A pd \in PreviousWithReminders :
                  needs_flavor_update(WithReminders(ret.before, r, fg), pd) = ret.val

C8_Witness ==
    /\ ret.op = "needs_reminder_update"
    /\ IsKnown
    /\ Get(Prev, "_remindersFetched", FALSE)
    /\ Get(Prev, "flavor", <<>>) = <<>>
    /\ Get(ret.before, "flavor", <<>>) = FlavorDie
    /\ SameSource
    /\ ret.val = FALSE

\* C10 as stated: preserve_flavor_text returns true and copies the previous
\* flavor iff a previous record exists with a valid flavor, and otherwise
\* returns false and leaves the entity's flavor field empty; preserve_reminders
\* copies and sets the flag iff the previous record has _remindersFetched true.
C10_PreserveReminders ==
    ret.op = "preserve_reminders" =>
        /\ ret.val = (IsKnown /\ Get(Prev, "_remindersFetched", FALSE))
        /\ ret.val =>
              /\ Get(character, "reminders", <<>>) = Get(Prev, "reminders", <<>>)
              /\ Get(character, "remindersGlobal", <<>>)
                    = Get(Prev, "remindersGlobal", <<>>)
              /\ Get(character, "_remindersFetched", FALSE) = TRUE
        /\ ~ret.val => character = ret.before

C10_PreserveFlavorIff ==
    ret.op = "preserve_flavor_text" =>
        /\ ret.val = (IsKnown /\ is_valid_flavor(Get(Prev, "flavor", <<>>)))
        /\ ret.val => /\ Has(character, "flavor")
                      /\ Get(character, "flavor", <<>>) = Get(Prev, "flavor", <<>>)

C10_AsStated ==
    /\ C10_PreserveReminders
    /\ C10_PreserveFlavorIff
    /\ (ret.op = "preserve_flavor_text" /\ ~ret.val)
          => Get(character, "flavor", <<>>) = <<>>

\* C10 amended: as stated, except that a preserve_flavor_text that returns
\* false leaves the entity's flavor field as it was (empty only if it was
\* empty before the call).
C10_PreserveOnlyValid ==
    /\ C10_PreserveReminders
    /\ C10_PreserveFlavorIff
    /\ (ret.op = "preserve_flavor_text" /\ ~ret.val) => character = ret.before

C10_Witness ==
    /\ ret.op = "preserve_flavor_text"
    /\ IsKnown
    /\ Get(Prev, "flavor", <<>>) = FlavorQuotedScript
    /\ Get(ret.before, "flavor", <<>>) = FlavorDie
    /\ ret.val = FALSE
    /\ Get(character, "flavor", <<>>) = FlavorDie

----------------------------------------------------------------------------
(* Entity store and fetch phases, as operators over the disk state.        *)

\* the values of map m (id -> record) for the ids of order that m holds
Values(m, order) ==
    LET present == SelectSeq(order, LAMBDA k : k \in DOMAIN m)
    IN  [i \in 1..Len(present) |-> m[present[i]]]

\* load_previous_character_data: every per-entity record under the root, by
\* its id; all_characters.json is skipped
load_previous_character_data(fs) == fs

\* the entity save_characters_by_edition writes for char, given the record
\* already at its path (NoRecord when the file does not exist)
NoRecord == <<>>
\* SavedEntity without the read of the existing record (writers.py:127-142)
SavedEntity_IgnoresExisting(char, existing) ==
    IF Has(char, "flavor") THEN char ELSE Put(char, "flavor", <<>>)

SavedEntity(char, existing) ==
    LET withReminders ==
            IF Get(existing, "_remindersFetched", FALSE)
            THEN Put(Put(Put(char, "_remindersFetched", TRUE),
                         "reminders", Get(existing, "reminders", <<>>)),
                     "remindersGlobal", Get(existing, "remindersGlobal", <<>>))
            ELSE char
        withFlavor ==
            IF Get(existing, "flavor", <<>>) # <<>>
            THEN Put(withReminders, "flavor", Get(existing, "flavor", <<>>))
            ELSE withReminders
    IN  IF Has(withFlavor, "flavor") THEN withFlavor ELSE Put(withFlavor, "flavor", <<>>)

\* save_characters_by_edition: <<characters as mutated, files, all_file>>
save_characters_by_edition(chars, fs, order) ==
    LET mutated == [id \in DOMAIN chars |->
                      SavedEntity(chars[id],
                                  IF id \in DOMAIN fs THEN fs[id] ELSE NoRecord)]
        written == [id \in DOMAIN fs \cup DOMAIN chars |->
                      IF id \in DOMAIN chars
                      THEN order_character_fields(strip_internal_fields(mutated[id], TRUE))
                      ELSE fs[id]]
        all     == Values([id \in DOMAIN chars |->
                              order_character_fields(
                                  strip_internal_fields(mutated[id], FALSE))], order)
    IN  <<mutated, written, all>>

\* a wiki answer: ok = FALSE is a failed fetch (no page, or nothing extracted)
Failed == [ok |-> FALSE, val |-> <<>>]
Fetched(v) == [ok |-> TRUE, val |-> v]

\* fetch_reminders_for_edition, incremental: what it does with the record of
\* one file of the edition
ReminderOutcome(id, fs, pd, w) ==
    IF DOMAIN pd # {} /\ ~needs_reminder_update(fs[id], pd)
    THEN LET r == preserve_reminders(fs[id], pd) IN
         IF r[1] THEN [kind |-> "preserved", val |-> Get(r[2], "reminders", <<>>)]
                 ELSE [kind |-> "skipped", val |-> <<>>]
    ELSE [kind |-> "fetch", val |-> IF w[id].rem.ok THEN w[id].rem.val ELSE <<>>]

\* its "reminders" result: id -> token list
fetch_reminders_for_edition(ids, fs, pd, w) ==
    [id \in {i \in ids : ReminderOutcome(i, fs, pd, w).kind # "skipped"} |->
        ReminderOutcome(id, fs, pd, w).val]

update_character_files_with_reminders_NoFlag(reminders, fs) ==
    [id \in DOMAIN fs |->
        IF id \in DOMAIN reminders
        THEN Put(Put(fs[id], "reminders", reminders[id]), "remindersGlobal", <<>>)
        ELSE fs[id]]

update_character_files_with_reminders(reminders, fs) ==
    [id \in DOMAIN fs |->
        IF id \in DOMAIN reminders
        THEN Put(Put(Put(fs[id], "reminders", reminders[id]),
                     "remindersGlobal", <<>>),
                 "_remindersFetched", TRUE)
        ELSE fs[id]]

\* load_scraped_characters: the combined file as a dict by id
load_scraped_characters(all) ==
    [id \in {Get(all[i], "id", "") : i \in DOMAIN all} |->
        all[CHOOSE i \in DOMAIN all : Get(all[i], "id", "") = id]]

\* update_flavor_for_characters, force = False: what it does with one entity
FlavorOutcome(c, pd, w) ==
    IF ~needs_flavor_update(c, pd)
    THEN LET r == preserve_flavor_text(c, pd) IN
         [kind |-> IF r[1] THEN "preserved" ELSE "skipped", char |-> r[2]]
    ELSE LET flavor == w[Get(c, "id", "")].flav IN
         IF flavor.ok /\ flavor.val # <<>>
         THEN [kind |-> "fetched", char |-> Put(c, "flavor", flavor.val)]
         ELSE LET r == preserve_flavor_text(c, pd) IN
              [kind |-> "failed",
               char |-> IF r[1] THEN r[2] ELSE Put(c, "flavor", <<>>)]

\* save_updated_characters: <<files, all_file>>
save_updated_characters(chars, fs, order) ==
    <<[id \in DOMAIN fs \cup DOMAIN chars |->
          IF id \in DOMAIN chars THEN order_character_fields(chars[id]) ELSE fs[id]],
      Values([id \in DOMAIN chars |->
                 order_character_fields(strip_internal_fields(chars[id], FALSE))],
             order)>>

----------------------------------------------------------------------------
(* The sync orchestrator: character_scraper.main, run after run.           *)

MaxRuns == 2

PipeIds == {"a", "b"}
EditionOf(id) == IF id = "a" THEN "tb" ELSE "bmr"
NameOf(id) == IF id = "a" THEN "Alpha" ELSE "Beta"
AbilitiesOf(id) == IF id = "a" THEN {"A1", "A2"} ELSE {"B1"}
\* the ids a scrape always returns
AlwaysListed == {"b"}
VALID_EDITIONS == {"tb", "bmr"}
\* the order of the script tool's character list
ScrapeOrder == <<"a", "b">>
\* the order in which the directory scan lists the per-entity files
DiskOrder == <<"b", "a">>

ScrapedEntity(id, ability) ==
    << <<"id", id>>, <<"name", NameOf(id)>>, <<"ability", ability>>,
       <<"edition", EditionOf(id)>>, <<"_imageUrl", "http://icon">>,
       <<"reminders", <<>> >>, <<"remindersGlobal", <<>> >> >>

Scrapes ==
    UNION { { [id \in S |-> ScrapedEntity(id, f[id])] :
                f \in {g \in [PipeIds -> {"A1", "A2", "B1"}] :
                          \A id \in PipeIds : g[id] \in AbilitiesOf(id)} } :
            S \in {T \in SUBSET PipeIds : AlwaysListed \subseteq T} }

FlavorWiki == <<"\"", "H", "i", "!", "\"">>

\* what the wiki's pages yield: no reminders or some, no flavor, a flavor, or
\* a text that extract_flavor_from_html returns and is_valid_flavor rejects
Wikis ==
    [PipeIds -> [rem : {Failed, Fetched(<<"DEAD">>)},
                 flav : {Failed, Fetched(FlavorWiki), Fetched(FlavorShort)}]]

ArgsSet == [reminders : BOOLEAN, flavor : BOOLEAN]

NoManifest ==
    [contentHash |-> <<"none">>, total_characters |-> 0,
     total_reminders |-> 0, total_flavor |-> 0]

NoAttempt == [id \in PipeIds |-> [rem |-> "none", flav |-> "none"]]

\* what a scrape says of the upstream source: the ids, their names and abilities
ScrapeOf(chars) ==
    [id \in DOMAIN chars |->
        <<Get(chars[id], "name", ""), Get(chars[id], "ability", "")>>]

Init ==
    /\ pc = "idle"
    /\ args = [reminders |-> FALSE, flavor |-> FALSE]
    /\ characters = <<>>
    /\ wiki = [id \in PipeIds |-> [rem |-> Failed, flav |-> Failed]]
    /\ files = <<>>
    /\ all_file = <<>>
    /\ manifest = NoManifest
    /\ todo = {}
    /\ attempt = NoAttempt
    /\ runs = 0
    /\ run_start = <<>>
    /\ prev_out = [combined |-> <<>>, hash |-> <<"none">>]
    /\ same_inputs = FALSE
    /\ previous_data = <<>>
    /\ character = <<>>
    /\ ret = NoCall
    /\ dataset = <<>>

\* main, lines 249-292: scrape, then load the previous data if --reminders
StartRun ==
    /\ pc \in {"idle", "done"}
    /\ runs < MaxRuns
    /\ \E a \in ArgsSet, sc \in Scrapes, w \in Wikis :
          /\ args' = a
          /\ characters' = sc
          /\ wiki' = w
          /\ previous_data' =
                IF a.reminders THEN load_previous_character_data(files) ELSE <<>>
          /\ same_inputs' =
                /\ runs >= 1
                /\ args.reminders /\ args.flavor /\ a = args
                /\ w = wiki
                /\ ScrapeOf(sc) = ScrapeOf(characters)
    /\ run_start' = files
    /\ prev_out' = [combined |-> all_file, hash |-> manifest.contentHash]
    /\ attempt' = NoAttempt
    /\ runs' = runs + 1
    /\ pc' = "scraped"
    /\ UNCHANGED <<files, all_file, manifest, todo, harnessVars>>

\* main, line 296
Save ==
    /\ pc = "scraped"
    /\ LET r == save_characters_by_edition(characters, files, ScrapeOrder) IN
          /\ characters' = r[1]
          /\ files' = r[2]
          /\ all_file' = r[3]
    /\ pc' = "saved"
    /\ UNCHANGED <<args, wiki, manifest, todo, attempt, runs, run_start, prev_out,
                   same_inputs, previous_data, harnessVars>>

\* main, line 297
FirstManifest ==
    /\ pc = "saved"
    /\ manifest' = create_manifest(Values(characters, ScrapeOrder))
    /\ todo' = IF args.reminders THEN VALID_EDITIONS ELSE {}
    /\ pc' = IF args.reminders THEN "reminders"
             ELSE IF args.flavor THEN "flavor" ELSE "done"
    /\ UNCHANGED <<args, characters, wiki, files, all_file, attempt, runs,
                   run_start, prev_out, same_inputs, previous_data, harnessVars>>

\* main, lines 315-329: one turn of the loop over the editions
RemindersEdition(e) ==
    /\ pc = "reminders"
    /\ e \in todo
    /\ LET ids     == {id \in DOMAIN files : EditionOf(id) = e}
           results == fetch_reminders_for_edition(ids, files, previous_data, wiki)
       IN  /\ files' = IF DOMAIN results # {}
                       THEN update_character_files_with_reminders(results, files)
                       ELSE files
           /\ attempt' =
                 [id \in PipeIds |->
                    IF id \in ids
                       /\ ReminderOutcome(id, files, previous_data, wiki).kind = "fetch"
                    THEN [attempt[id] EXCEPT
                            !.rem = IF wiki[id].rem.ok THEN "ok" ELSE "failed"]
                    ELSE attempt[id]]
    /\ todo' = todo \ {e}
    /\ pc' = IF todo' # {} THEN "reminders"
             ELSE IF args.flavor THEN "flavor" ELSE "final"
    /\ UNCHANGED <<args, characters, wiki, all_file, manifest, runs, run_start,
                   prev_out, same_inputs, previous_data, harnessVars>>

\* main, lines 340-359
FlavorPhase ==
    /\ pc = "flavor"
    /\ LET char_data == load_scraped_characters(all_file)
           pd        == load_previous_character_data(files)
           outcome   == [id \in DOMAIN char_data |-> FlavorOutcome(char_data[id], pd, wiki)]
           updated   == [id \in DOMAIN char_data |-> outcome[id].char]
           fetched   == {id \in DOMAIN char_data : outcome[id].kind = "fetched"}
           saved     == save_updated_characters(updated, files, ScrapeOrder)
       IN  /\ files' = IF fetched # {} THEN saved[1] ELSE files
           /\ all_file' = IF fetched # {} THEN saved[2] ELSE all_file
           /\ attempt' =
                 [id \in PipeIds |->
                    IF id \in DOMAIN char_data /\ outcome[id].kind \in {"fetched", "failed"}
                    THEN [attempt[id] EXCEPT
                            !.flav = IF outcome[id].kind = "fetched" THEN "ok" ELSE "failed"]
                    ELSE attempt[id]]
    /\ pc' = "final"
    /\ UNCHANGED <<args, characters, wiki, manifest, todo, runs, run_start,
                   prev_out, same_inputs, previous_data, harnessVars>>

\* main, lines 376-385
FinalManifest ==
    /\ pc = "final"
    /\ LET updated_characters == load_previous_character_data(files) IN
          manifest' = IF DOMAIN updated_characters # {}
                      THEN create_manifest(Values(updated_characters, DiskOrder))
                      ELSE manifest
    /\ pc' = "done"
    /\ UNCHANGED <<args, characters, wiki, files, all_file, todo, attempt, runs,
                   run_start, prev_out, same_inputs, previous_data, harnessVars>>

Next ==
    \/ StartRun
    \/ Save
    \/ FirstManifest
    \/ \E e \in VALID_EDITIONS : RemindersEdition(e)
    \/ FlavorPhase
    \/ FinalManifest

Spec == Init /\ [][Next]_vars

----------------------------------------------------------------------------
(* Claims about whole runs.                                                *)

RunDone == pc = "done"

\* the previous record of id holds a valid value of the category
PreviousRemindersValid(id) ==
    /\ id \in DOMAIN previous_data
    /\ Get(previous_data[id], "_remindersFetched", FALSE) = TRUE

PreviousFlavorValid(id) ==
    /\ id \in DOMAIN run_start
    /\ is_valid_flavor(Get(run_start[id], "flavor", <<>>))

\* C1: when a run is over, every entity whose reminder fetch was attempted
\* and failed while its previous record had _remindersFetched true still has
\* the previous reminders on disk, with _remindersFetched true; every entity
\* whose flavor fetch was attempted and failed while its previous flavor was
\* valid still has the previous flavor on disk.
C1_PreservationSafety ==
    RunDone =>
       \A id \in PipeIds :
          /\ (attempt[id].rem = "failed" /\ PreviousRemindersValid(id)) =>
                /\ id \in DOMAIN files
                /\ Get(files[id], "reminders", <<>>)
                      = Get(previous_data[id], "reminders", <<>>)
                /\ Get(files[id], "_remindersFetched", FALSE) = TRUE
          /\ (attempt[id].flav = "failed" /\ PreviousFlavorValid(id)) =>
                /\ id \in DOMAIN files
                /\ Get(files[id], "flavor", <<>>) = Get(run_start[id], "flavor", <<>>)

\* C3: when the second of two successive full runs (reminders and flavor
\* phases on) with the same scrape results and the same wiki answers is over,
\* the combined file and the manifest's contentHash are what the first run
\* left.
C3_Idempotence ==
    (RunDone /\ same_inputs) =>
       /\ all_file = prev_out.combined
       /\ manifest.contentHash = prev_out.hash

\* C9: when a run is over, every entity whose fetch of a category was
\* attempted and failed with no valid previous value to preserve has the
\* empty value of the category on disk and no true fetch flag, and the
\* staleness verdict of its persisted record against the persisted data is
\* true.
C9_RetryAfterFailure ==
    RunDone =>
       \A id \in PipeIds :
          /\ (attempt[id].rem = "failed" /\ ~PreviousRemindersValid(id)) =>
                /\ id \in DOMAIN files
                /\ Get(files[id], "reminders", <<>>) = <<>>
                /\ Get(files[id], "_remindersFetched", FALSE) # TRUE
                /\ needs_reminder_update(files[id], load_previous_character_data(files))
          /\ (attempt[id].flav = "failed" /\ ~PreviousFlavorValid(id)) =>
                /\ id \in DOMAIN files
                /\ Get(files[id], "flavor", <<>>) = <<>>
                /\ needs_flavor_update(files[id], load_previous_character_data(files))

----------------------------------------------------------------------------
(* Merge harness: each action applies one merge operation to an entity     *)
(* drawn from the policy harness's inputs.                                 *)

\* a second file of the edition directory
MergeOther ==
    << <<"id", "z">>, <<"name", "Zed">>, <<"edition", "tb">>,
       <<"reminders", <<"OLD">> >>, <<"remindersGlobal", <<"OLD">> >>,
       <<"ability", "Z1">>, <<"flavor", FlavorDie>> >>

\* the edition directory holding the entity and the second file
FilesOf(c) ==
    [id \in {Get(c, "id", ""), "z"} |-> IF id = "z" THEN MergeOther ELSE c]

\* the "reminders" results handed to update_character_files_with_reminders
ReminderResults(c) ==
    { [x \in {id} |-> r] : id \in {Get(c, "id", ""), "z"}, r \in {<<>>, <<"NEW">>} }

\* what fetch_flavor_from_wiki returns: None, a flavor, or whatever text the
\* page's markup yielded
MergeFlavorAnswers == {Failed, Fetched(FlavorWiki), Fetched(FlavorHtml)}

\* update_character_files_with_reminders on the edition directory
CallUpdateCharacterFiles ==
    /\ ret.op = "none"
    /\ \E reminders \in ReminderResults(character) :
          /\ files' = update_character_files_with_reminders(reminders, FilesOf(character))
          /\ character' = files'[Get(character, "id", "")]
          /\ ret' = [op |-> "update_character_files_with_reminders",
                     val |-> reminders, before |-> character]
    /\ UNCHANGED <<dataset, previous_data, pc, args, characters, wiki, all_file,
                   manifest, todo, attempt, runs, run_start, prev_out, same_inputs>>

\* update_flavor_for_characters (force = False) on the one entity
CallUpdateFlavor ==
    /\ ret.op = "none"
    /\ \E answer \in MergeFlavorAnswers :
          LET w == [id \in {Get(character, "id", "")} |-> [rem |-> Failed, flav |-> answer]]
              o == FlavorOutcome(character, previous_data, w)
          IN  /\ character' = o.char
              /\ ret' = [op |-> "update_flavor_for_characters",
                         val |-> [kind |-> o.kind, answer |-> answer],
                         before |-> character]
    /\ UNCHANGED <<dataset, previous_data, pipeVars>>

MergeNext ==
    \/ CallPreserveFlavorText
    \/ CallPreserveReminders
    \/ CallUpdateCharacterFiles
    \/ CallUpdateFlavor

SpecMerge == PolicyInit /\ [][MergeNext]_vars

\* C11: after a successful fetch for an entity with verdict true the entity's
\* flavor is the fetched flavor; after update_character_files_with_reminders
\* every file whose id is in the results holds the result's reminders,
\* whatever it held before, and has _remindersFetched true.
C11_ApplyFetched ==
    /\ (ret.op = "update_flavor_for_characters" /\ ret.val.kind = "fetched") =>
          /\ needs_flavor_update(ret.before, previous_data)
          /\ Get(character, "flavor", <<>>) = ret.val.answer.val
    /\ ret.op = "update_character_files_with_reminders" =>
          \A id \in DOMAIN ret.val :
              /\ Get(files[id], "reminders", <<>>) = ret.val[id]
              /\ Get(files[id], "_remindersFetched", FALSE) = TRUE

C11_Witness ==
    /\ ret.op = "update_character_files_with_reminders"
    /\ CurId \in DOMAIN ret.val
    /\ ret.val[CurId] = <<"NEW">>
    /\ Get(ret.before, "reminders", <<>>) = <<"DEAD">>
    /\ ~Has(ret.before, "_remindersFetched")
    /\ Get(files[CurId], "reminders", <<>>) = <<"NEW">>

\* the fields a merge operation may write
AuxiliaryKeys == {"reminders", "remindersGlobal", "flavor", "_remindersFetched"}

\* the entity without its auxiliary fields and fetch flag
CoreOf(d) == SelectSeq(d, LAMBDA p : p[1] \notin AuxiliaryKeys)

\* C12: preserve_reminders, preserve_flavor_text, update_flavor_for_characters
\* and update_character_files_with_reminders leave every field of the entity
\* other than reminders, remindersGlobal, flavor and _remindersFetched as it
\* was, leave the previous data as it was, and leave every other file of the
\* directory as it was.
C12_MergeFrame ==
    /\ ret.op \in {"preserve_reminders", "preserve_flavor_text",
                   "update_flavor_for_characters",
                   "update_character_files_with_reminders"} =>
          CoreOf(character) = CoreOf(ret.before)
    /\ ret.op = "update_character_files_with_reminders" =>
          /\ DOMAIN files = DOMAIN FilesOf(ret.before)
          /\ \A id \in DOMAIN files :
                /\ CoreOf(files[id]) = CoreOf(FilesOf(ret.before)[id])
                /\ id \notin DOMAIN ret.val => files[id] = FilesOf(ret.before)[id]

C12_Witness ==
    /\ ret.op = "preserve_reminders"
    /\ ret.val = TRUE
    /\ Get(ret.before, "ability", "") # Get(Prev, "ability", "")
    /\ Get(ret.before, "reminders", <<>>) # Get(character, "reminders", <<>>)

----------------------------------------------------------------------------
(* Scrape harness: the script tool's page is scraped, narrowed to the      *)
(* editions asked for, saved and indexed (main without optional phases).   *)

\* extract_characters: every listed character, with an empty jinxes list
extract_characters(listed) ==
    [id \in DOMAIN listed |-> Put(listed[id], "jinxes", <<>>)]

\* extract_jinxes: each item of the Djinn section is appended to the jinxes
\* of those of its two characters that are in the dict
extract_jinxes(items, chars) ==
    LET AddJinx(cs, to, other, text) ==
            IF to \in DOMAIN cs
            THEN [cs EXCEPT ![to] =
                     Put(@, "jinxes", Append(Get(@, "jinxes", <<>>), Jinx(other, text)))]
            ELSE cs
        RECURSIVE Loop(_)
        Loop(n) ==
            IF n = 0 THEN chars
            ELSE AddJinx(AddJinx(Loop(n - 1), items[n].char1, items[n].char2, items[n].text),
                         items[n].char2, items[n].char1, items[n].text)
    IN  Loop(Len(items))

\* clean_character_data: empty jinxes lists are deleted
clean_character_data(chars) ==
    [id \in DOMAIN chars |->
        IF Has(chars[id], "jinxes") /\ Get(chars[id], "jinxes", <<>>) = <<>>
        THEN Del(chars[id], "jinxes")
        ELSE chars[id]]

filter_characters_by_edition(chars, editions) ==
    [id \in {i \in DOMAIN chars : Get(chars[i], "edition", "") \in Range(editions)} |->
        chars[id]]

\* the items of the page's Djinn section: two character icons and a text
JinxItems ==
    { [char1 |-> x, char2 |-> y, text |-> t] :
        x \in PipeIds, y \in PipeIds, t \in {"R1", "R2"} } \ 
    { [char1 |-> x, char2 |-> x, text |-> t] : x \in PipeIds, t \in {"R1", "R2"} }

JinxItemLists ==
    {<<>>} \cup {<<i>> : i \in JinxItems} \cup (JinxItems \X JinxItems)

\* the command line: --edition absent (<<>>) or a list of editions
ScrapeArgs ==
    [reminders : {FALSE}, flavor : {FALSE},
     edition : {<<>>, <<"tb">>, <<"bmr">>, <<"tb", "bmr">>}]

ScrapeInit ==
    /\ pc = "page"
    /\ args \in ScrapeArgs
    /\ characters = <<>>
    /\ wiki = [id \in PipeIds |-> [rem |-> Failed, flav |-> Failed]]
    /\ files = <<>>
    /\ all_file = <<>>
    /\ manifest = NoManifest
    /\ todo = {}
    /\ attempt = NoAttempt
    /\ runs = 0
    /\ run_start = <<>>
    /\ prev_out = [combined |-> <<>>, hash |-> <<"none">>]
    /\ same_inputs = FALSE
    /\ previous_data = <<>>
    /\ character = <<>>
    /\ ret = NoCall
    /\ dataset = <<>>

\* scrape_characters
ScrapeCharacters ==
    /\ pc = "page"
    /\ \E listed \in Scrapes, items \in JinxItemLists :
          characters' =
              clean_character_data(extract_jinxes(items, extract_characters(listed)))
    /\ pc' = "fetched"
    /\ UNCHANGED <<args, wiki, files, all_file, manifest, todo, attempt, runs,
                   run_start, prev_out, same_inputs, previous_data, harnessVars>>

\* main, lines 256-260
FilterEditions ==
    /\ pc = "fetched"
    /\ characters' = IF args.edition # <<>>
                     THEN filter_characters_by_edition(characters, args.edition)
                     ELSE characters
    /\ pc' = "scraped"
    /\ UNCHANGED <<args, wiki, files, all_file, manifest, todo, attempt, runs,
                   run_start, prev_out, same_inputs, previous_data, harnessVars>>

ScrapeNext ==
    \/ ScrapeCharacters
    \/ FilterEditions
    \/ Save
    \/ FirstManifest

SpecScrape == ScrapeInit /\ [][ScrapeNext]_vars

\* every jinx entry of a record of the map has its mirror entry
JinxesSymmetric(m) ==
    \A A \in DOMAIN m :
       \A i \in DOMAIN Get(m[A], "jinxes", <<>>) :
          LET j == Get(m[A], "jinxes", <<>>)[i]
              B == Get(j, "id", "")
          IN  /\ B \in DOMAIN m
              /\ \E k \in DOMAIN Get(m[B], "jinxes", <<>>) :
                    LET back == Get(m[B], "jinxes", <<>>)[k] IN
                    /\ Get(back, "id", "") = A
                    /\ Get(back, "reason", "") = Get(j, "reason", "")

\* C13: in the dataset the run has saved, every jinx entry on A naming B with
\* a reason is matched by B being in the dataset with an entry naming A with
\* the same reason.
C13_JinxesSymmetric ==
    pc \in {"saved", "done"} => JinxesSymmetric(files)

\* C14: the manifest's total_jinxes is exactly half the number of jinx
\* entries stored in the dataset handed to create_manifest.
C14_JinxCount ==
    pc = "done" =>
        2 * manifest.total_jinxes = RawJinxes(Values(characters, ScrapeOrder))

----------------------------------------------------------------------------
(* Claims about the manifest builders (manifest harness).                  *)

Reverse(s) == [i \in 1..Len(s) |-> s[Len(s) + 1 - i]]

\* the first key moved to the end
Rotate(s) == IF s = <<>> THEN s ELSE Tail(s) \o <<Head(s)>>

\* the keys of every jinx entry of the record in the opposite order
WithJinxKeysReversed(d) ==
    [i \in 1..Len(d) |->
        IF d[i][1] = "jinxes"
        THEN <<"jinxes", [j \in 1..Len(d[i][2]) |-> Reverse(d[i][2][j])]>>
        ELSE d[i]]

\* some records with the fields of d in another order
Reordered(d) == {Reverse(d), WithJinxKeysReversed(Rotate(d))}

\* the datasets that differ from dataset only in the order of keys
Reorderings ==
    IF Len(dataset) = 1
    THEN {<<x>> : x \in Reordered(dataset[1])}
    ELSE Reordered(dataset[1]) \X Reordered(dataset[2])

\* the manifest the builder named op computes for ds
Build(op, ds) ==
    IF op = "create_manifest" THEN create_manifest(ds)
    ELSE IF op = "compute_manifest_stats" THEN compute_manifest_stats(ds)
    ELSE create_dist_manifest(ds)

CalledBuilder ==
    ret.op \in {"create_manifest", "compute_manifest_stats", "create_dist_manifest"}

\* C15: for every manifest builder, a dataset whose records (or nested jinx
\* entries) have their keys in another order gets the same contentHash.
C15_HashIgnoresKeyOrder ==
    CalledBuilder =>
        \A ds \in Reorderings : Build(ret.op, ds).contentHash = ret.val.contentHash

C15_Witness ==
    /\ ret.op = "create_dist_manifest"
    /\ Len(dataset) = 2
    /\ Has(dataset[1], "jinxes")
    /\ Reverse(dataset[1]) # dataset[1]
    /\ WithJinxKeysReversed(Rotate(dataset[1])) # Rotate(dataset[1])
    /\ <<WithJinxKeysReversed(Rotate(dataset[1])), Reverse(dataset[2])>> \in Reorderings

\* records that differ from d in the value of one public field
PublicAlternatives(d) ==
    { Put(d, "name", "N2"),
      Put(d, "id", "c"),
      Put(d, "reminders", Append(Get(d, "reminders", <<>>), "EXTRA")),
      Put(d, "flavor", Get(d, "flavor", <<>>) \o <<"!">>),
      Put(d, "jinxes", Get(d, "jinxes", <<>>) \o <<Jinx("c", "R2")>>) }

\* an entity that brings a new id and internal fields only
NewEntity ==
    << <<"id", "d">>, <<"_imageUrl", "http://icon">>, <<"_remindersFetched", TRUE>> >>

\* datasets that differ from dataset in one public field or in the set of ids
PublicNeighbours ==
    {[dataset EXCEPT ![1] = x] : x \in PublicAlternatives(dataset[1])}
    \cup {Append(dataset, NewEntity)}
    \cup (IF Len(dataset) = 2
          THEN {[dataset EXCEPT ![2] = x] : x \in PublicAlternatives(dataset[2])}
                  \cup {<<dataset[1]>>, <<dataset[2]>>}
          ELSE {})

\* C16: for every manifest builder, a dataset that differs in the value of a
\* public field of some entity, or in the set of entity ids (an entity added
\* that has only internal fields besides its id included), gets a contentHash,
\* and another one.
C16_HashSensitiveToPublicData ==
    CalledBuilder =>
        \A ds \in PublicNeighbours :
            LET m == Build(ret.op, ds)
            IN  /\ "contentHash" \in DOMAIN m
                /\ m.contentHash # ret.val.contentHash

\* C17: for the same dataset, create_manifest, compute_manifest_stats,
\* create_dist_manifest and verify_package all arrive at the same contentHash
\* string.
C17_OneDigestForm ==
    CalledBuilder =>
        /\ \A op \in {"create_manifest", "compute_manifest_stats", "create_dist_manifest"} :
              Build(op, dataset).contentHash = ret.val.contentHash
        /\ verify_package(ret.val, dataset)

\* C18: in the manifest of every builder, total_characters is the number of
\* entities and the sum of edition_counts; edition_counts[e] is the length of
\* editions[e]; every id is in exactly one editions list, that of its edition;
\* total_reminders is the sum of edition_reminders and of the entities'
\* reminder counts; total_flavor is the number of entities with a flavor.
C18_ManifestCounts ==
    CalledBuilder =>
        LET m == ret.val
            N == 1..Len(dataset)
        IN  /\ m.total_characters = Len(dataset)
            /\ m.total_characters
                  = SeqSum([i \in 1..Len(m.edition_counts) |-> m.edition_counts[i][2]])
            /\ Len(m.edition_counts) = Len(m.editions)
            /\ \A i \in 1..Len(m.editions) :
                  /\ m.edition_counts[i][1] = m.editions[i][1]
                  /\ m.edition_counts[i][2] = Len(m.editions[i][2])
                  /\ Cardinality(Range(m.editions[i][2])) = Len(m.editions[i][2])
            /\ \A n \in N :
                  \A i \in 1..Len(m.editions) :
                      (Get(dataset[n], "id", "") \in Range(m.editions[i][2]))
                         <=> (m.editions[i][1] = Get(dataset[n], "edition", ""))
            /\ \A n \in N : Has(m.editions, Get(dataset[n], "edition", ""))
            /\ m.total_reminders
                  = SeqSum([i \in 1..Len(m.edition_reminders) |-> m.edition_reminders[i][2]])
            /\ m.total_reminders
                  = SeqSum([n \in N |-> Len(Get(dataset[n], "reminders", <<>>))])
            /\ m.total_flavor
                  = Cardinality({n \in N : Get(dataset[n], "flavor", <<>>) # <<>>})

C18_Witness ==
    /\ ret.op = "create_manifest"
    /\ Len(dataset) = 2
    /\ Get(dataset[1], "edition", "") # Get(dataset[2], "edition", "")
    /\ ret.val.total_reminders = 2
    /\ ret.val.total_flavor = 1
    /\ ret.val.total_characters = 2

\* the elements of s are in strictly ascending position in order
Ascending(s, order) ==
    \A i \in DOMAIN s : \A j \in DOMAIN s :
        i < j => \E a \in DOMAIN order : \E b \in DOMAIN order :
                    /\ a < b
                    /\ order[a] = s[i]
                    /\ order[b] = s[j]

\* C19: for every builder, the same entities in another order give the same
\* editions, edition_counts, edition_reminders and totals; the edition keys
\* are ascending and the ids inside each edition list are ascending.
C19_ManifestIndexSorted ==
    CalledBuilder =>
        LET m == ret.val
            p == Build(ret.op, Reverse(dataset))
        IN  /\ p.editions = m.editions
            /\ p.edition_counts = m.edition_counts
            /\ p.edition_reminders = m.edition_reminders
            /\ p.total_characters = m.total_characters
            /\ p.total_reminders = m.total_reminders
            /\ p.total_jinxes = m.total_jinxes
            /\ p.total_flavor = m.total_flavor
            /\ Ascending([i \in 1..Len(m.editions) |-> m.editions[i][1]], SortedEditionNames)
            /\ Ascending([i \in 1..Len(m.edition_counts) |-> m.edition_counts[i][1]],
                         SortedEditionNames)
            /\ Ascending([i \in 1..Len(m.edition_reminders) |-> m.edition_reminders[i][1]],
                         SortedEditionNames)
            /\ \A i \in 1..Len(m.editions) : Ascending(m.editions[i][2], SortedIdNames)

C19_Witness ==
    /\ ret.op = "create_manifest"
    /\ Len(dataset) = 2
    /\ Get(dataset[1], "id", "") = "b"
    /\ Get(dataset[1], "edition", "") = "tb"
    /\ Get(dataset[2], "edition", "") = "tb"
    /\ ret.val.editions = << <<"tb", <<"a", "b">> >> >>

----------------------------------------------------------------------------
(* Claims about the orchestrator's manifest writes.                        *)

\* C20: every step of a run that writes manifest.json is the last step of
\* the run: the manifest is written once, after every enabled phase.
C20_ManifestOnce ==
    [][(pc \in {"saved", "final"} /\ pc' # pc) => pc' = "done"]_vars

\* the manifest of the per-entity records on disk, listed in order
ManifestOfFiles(order) == create_manifest(Values(files, order))

\* C21: when a run is over, the contentHash, total_reminders, total_flavor and
\* editions index of manifest.json are those computed from the per-entity
\* records on disk (in the order of the scrape or of the directory scan),
\* which hold every value a phase of the run merged.
C21_FinalManifestReflectsFinalState ==
    RunDone =>
        \E order \in {ScrapeOrder, DiskOrder} :
            /\ manifest.contentHash = ManifestOfFiles(order).contentHash
            /\ manifest.total_reminders = ManifestOfFiles(order).total_reminders
            /\ manifest.total_flavor = ManifestOfFiles(order).total_flavor
            /\ manifest.editions = ManifestOfFiles(order).editions

----------------------------------------------------------------------------
(* Interrupted writes: main with an I/O error or an interrupt inside one   *)
(* of its in-place writes (open(path, "w") followed by json.dump).         *)

\* what an interrupted json.dump leaves of a record: a prefix of its text
Cut == << <<"...", TRUE>> >>

\* what an interrupted json.dump leaves of the list all_chars
CutList(list) == SubSeq(list, 1, Len(list) - 1) \o <<Cut>>

\* what it leaves of manifest.json
CutManifest ==
    [contentHash |-> <<"...">>, total_characters |-> 0,
     total_reminders |-> 0, total_flavor |-> 0]

\* the outcomes of open(path, "w"); json.dump(new, f) hit at some point:
\* not yet opened, cut short, or written
InterruptedWrite(old, cut, new) == {old, cut, new}

\* the first per-entity file save_characters_by_edition writes
FirstSaved(chars) ==
    CHOOSE id \in DOMAIN chars :
        \A other \in DOMAIN chars :
            \E a \in DOMAIN SortedEditionNames : \E b \in DOMAIN SortedEditionNames :
                /\ SortedEditionNames[a] = EditionOf(id)
                /\ SortedEditionNames[b] = EditionOf(other)
                /\ a <= b

\* main, line 296, hit inside save_characters_by_edition: at the first
\* per-entity write (lines 149-150) or at the combined write (165-166)
InterruptSave ==
    /\ pc = "scraped"
    /\ LET r  == save_characters_by_edition(characters, files, ScrapeOrder)
           id == FirstSaved(characters)
       IN  \/ /\ files' \in { [i \in DOMAIN files \cup {id} |->
                                 IF i = id THEN w ELSE files[i]] :
                              w \in {Cut, r[2][id]} }
              /\ all_file' = all_file
           \/ /\ files' = r[2]
              /\ all_file' \in InterruptedWrite(all_file, CutList(r[3]), r[3])
    /\ pc' = "aborted"
    /\ UNCHANGED <<args, characters, wiki, manifest, todo, attempt, runs, run_start,
                   prev_out, same_inputs, previous_data, harnessVars>>

\* main, lines 297 and 383, hit inside create_manifest's write (lines 239-240)
InterruptManifest ==
    /\ pc \in {"saved", "final"}
    /\ manifest' \in
          InterruptedWrite(manifest, CutManifest,
                           IF pc = "saved"
                           THEN create_manifest(Values(characters, ScrapeOrder))
                           ELSE create_manifest(
                                    Values(load_previous_character_data(files), DiskOrder)))
    /\ pc' = "aborted"
    /\ UNCHANGED <<args, characters, wiki, files, all_file, todo, attempt, runs,
                   run_start, prev_out, same_inputs, previous_data, harnessVars>>

\* main, line 355, hit inside save_updated_characters' combined write
\* (flavor_fetcher.py, lines 326-327), the per-entity files being written
InterruptFlavorSave ==
    /\ pc = "flavor"
    /\ LET char_data == load_scraped_characters(all_file)
           pd        == load_previous_character_data(files)
           outcome   == [id \in DOMAIN char_data |-> FlavorOutcome(char_data[id], pd, wiki)]
           updated   == [id \in DOMAIN char_data |-> outcome[id].char]
           saved     == save_updated_characters(updated, files, ScrapeOrder)
       IN  /\ \E id \in DOMAIN char_data : outcome[id].kind = "fetched"
           /\ files' = saved[1]
           /\ all_file' \in InterruptedWrite(all_file, CutList(saved[2]), saved[2])
    /\ pc' = "aborted"
    /\ UNCHANGED <<args, characters, wiki, manifest, todo, attempt, runs, run_start,
                   prev_out, same_inputs, previous_data, harnessVars>>

CrashNext ==
    \/ Next
    \/ InterruptSave
    \/ InterruptManifest
    \/ InterruptFlavorSave

SpecCrash == Init /\ [][CrashNext]_vars

\* C22: when a run has been aborted inside a write, all_characters.json and
\* manifest.json each hold a whole version (the previous one or the new one),
\* never a part of one, and the aborted run takes no further step.
C22_NoTornWrites ==
    pc = "aborted" =>
        /\ \A i \in DOMAIN all_file : all_file[i] # Cut
        /\ manifest # CutManifest

----------------------------------------------------------------------------
(* The flavor batch: update_flavor_for_characters as main calls it, one    *)
(* step per request of fetch_with_retry, and fetch_with_retry called alone.*)

HTTP_MAX_RETRIES == 3

\* the frame of a call of fetch_with_retry: attempt is the loop variable,
\* requests counts session.get, outcomes lists what the requests met, retries
\* lists the attempt numbers handed to on_retry, sleeps counts time.sleep
Frame(caller, max_retries) ==
    [op |-> "fetch_with_retry",
     val |-> [caller |-> caller, max_retries |-> max_retries, attempt |-> 0,
              requests |-> 0, outcomes |-> <<>>, retries |-> <<>>, sleeps |-> 0, result |-> "running"],
     before |-> <<>>]

BatchFlavors == {<<>>, FlavorDie}

\* all_characters.json as load_scraped_characters finds it
BatchEntity(id, flavor) ==
    << <<"id", id>>, <<"name", NameOf(id)>>, <<"edition", EditionOf(id)>>,
       <<"ability", "A1">>, <<"reminders", <<>> >>, <<"remindersGlobal", <<>> >>,
       <<"flavor", flavor>> >>

BatchCombined ==
    { <<BatchEntity("a", fa), BatchEntity("b", fb)>> : fa \in BatchFlavors, fb \in BatchFlavors }

\* the per-entity records load_previous_character_data finds
BatchRecords(id) ==
    { Put(BatchEntity(id, f), "ability", ab) :
        f \in {FlavorDie, FlavorHtml}, ab \in {"A1", "A0"} }

BatchFiles ==
    UNION { [S -> UNION {BatchRecords(id) : id \in S}] : S \in SUBSET PipeIds }

NoDispatch == [id \in PipeIds |-> [rem |-> 0, flav |-> 0]]

FetchInit ==
    /\ pc = "idle"
    /\ all_file \in BatchCombined
    /\ files \in {f \in BatchFiles : \A id \in DOMAIN f : Get(f[id], "id", "") = id}
    /\ characters = load_scraped_characters(all_file)
    /\ previous_data = <<>>
    /\ todo = {}
    /\ attempt = NoDispatch
    /\ ret = NoCall
    /\ character = <<>>
    /\ dataset = <<>>
    /\ args = [reminders |-> FALSE, flavor |-> TRUE]
    /\ wiki = <<>>
    /\ manifest = <<>>
    /\ runs = 0
    /\ run_start = <<>>
    /\ prev_out = <<>>
    /\ same_inputs = FALSE

\* update_flavor_for_characters, lines 254-271: load the previous data, then
\* the first pass over characters.items()
StartFlavorLoop ==
    /\ pc = "idle"
    /\ LET pd == load_previous_character_data(files) IN
          /\ previous_data' = pd
          /\ todo' = {id \in DOMAIN characters : needs_flavor_update(characters[id], pd)}
          /\ characters' =
                [id \in DOMAIN characters |->
                    IF needs_flavor_update(characters[id], pd) THEN characters[id]
                    ELSE preserve_flavor_text(characters[id], pd)[2]]
    /\ pc' = "loop"
    /\ UNCHANGED <<args, wiki, files, all_file, manifest, attempt, runs, run_start,
                   prev_out, same_inputs, harnessVars>>

\* the entity the second pass visits next, in the order of characters.items()
NextToFetch ==
    LET order == SelectSeq(ScrapeOrder, LAMBDA id : id \in todo) IN order[1]

\* lines 276-280: the next entity of to_fetch is handed to
\* fetch_flavor_from_wiki, which calls fetch_with_retry(url)
BeginFetch ==
    /\ pc = "loop"
    /\ todo # {}
    /\ character' = characters[NextToFetch]
    /\ attempt' = [attempt EXCEPT ![NextToFetch].flav = @ + 1]
    /\ ret' = Frame("update_flavor_for_characters", HTTP_MAX_RETRIES)
    /\ pc' = "fetching"
    /\ UNCHANGED <<dataset, previous_data, args, characters, wiki, files, all_file,
                   manifest, todo, runs, run_start, prev_out, same_inputs>>

\* fetch_with_retry called on its own with max_retries given
CallFetchWithRetry ==
    /\ pc = "idle"
    /\ \E m \in 0..HTTP_MAX_RETRIES : ret' = Frame("harness", m)
    /\ pc' = "fetching"
    /\ UNCHANGED <<character, dataset, previous_data, args, characters, wiki, files,
                   all_file, manifest, todo, attempt, runs, run_start, prev_out,
                   same_inputs>>

\* lines 282-294 of update_flavor_for_characters for the entity being
\* fetched, flavor being what fetch_flavor_from_wiki returned (<<>> for None)
ApplyFlavor(flavor) ==
    LET id == Get(character, "id", "") IN
    /\ characters' =
          [characters EXCEPT ![id] =
              IF flavor # <<>> THEN Put(@, "flavor", flavor)
              ELSE LET r == preserve_flavor_text(@, previous_data) IN
                   IF r[1] THEN r[2] ELSE Put(@, "flavor", <<>>)]
    /\ todo' = todo \ {id}
    /\ pc' = "loop"

\* what the caller of fetch_with_retry does with None or a response whose
\* text yields flavor
Return(flavor) ==
    IF ret.val.caller = "harness"
    THEN /\ pc' = "returned"
         /\ UNCHANGED <<characters, todo>>
    ELSE ApplyFlavor(flavor)

\* lines 117-150: the request succeeds within the size limit
RequestOk ==
    /\ pc = "fetching"
    /\ ret' = [ret EXCEPT !.val.requests = @ + 1, !.val.result = "response",
                          !.val.outcomes = Append(@, "ok")]
    /\ \E answer \in {Failed, Fetched(FlavorWiki)} :
          Return(IF answer.ok THEN answer.val ELSE <<>>)
    /\ UNCHANGED <<character, dataset, previous_data, args, wiki, files, all_file,
                   manifest, attempt, runs, run_start, prev_out, same_inputs>>

\* lines 126-134, 140-144, 152-156: the response is over max_size_mb, the
\* ValueError is re-raised, and neither fetch_flavor_from_wiki, nor
\* update_flavor_for_characters, nor main catches it
RequestOversized ==
    /\ pc = "fetching"
    /\ ret' = [ret EXCEPT !.val.requests = @ + 1, !.val.result = "ValueError",
                          !.val.outcomes = Append(@, "oversized")]
    /\ pc' = "raised"
    /\ UNCHANGED <<character, dataset, previous_data, args, characters, wiki, files,
                   all_file, manifest, todo, attempt, runs, run_start, prev_out,
                   same_inputs>>

\* a 4xx status other than 429 handled as any other RequestException
RequestClientError_Retried ==
    /\ pc = "fetching"
    /\ IF ret.val.attempt >= ret.val.max_retries
       THEN /\ ret' = [ret EXCEPT !.val.requests = @ + 1, !.val.result = "None",
                                  !.val.outcomes = Append(@, "client_error")]
            /\ Return(<<>>)
       ELSE /\ ret' = [ret EXCEPT !.val.requests = @ + 1,
                                  !.val.outcomes = Append(@, "client_error"),
                                  !.val.retries = Append(@, ret.val.attempt + 1),
                                  !.val.sleeps = @ + 1,
                                  !.val.attempt = @ + 1]
            /\ UNCHANGED <<pc, characters, todo>>
    /\ UNCHANGED <<character, dataset, previous_data, args, wiki, files, all_file,
                   manifest, attempt, runs, run_start, prev_out, same_inputs>>

\* lines 158-167: a 4xx status other than 429
RequestClientError ==
    /\ pc = "fetching"
    /\ ret' = [ret EXCEPT !.val.requests = @ + 1, !.val.result = "None",
                          !.val.outcomes = Append(@, "client_error")]
    /\ Return(<<>>)
    /\ UNCHANGED <<character, dataset, previous_data, args, wiki, files, all_file,
                   manifest, attempt, runs, run_start, prev_out, same_inputs>>

\* the same with the test of line 170 passing one attempt later
RequestRetryable_OneMore ==
    /\ pc = "fetching"
    /\ IF ret.val.attempt > ret.val.max_retries
       THEN /\ ret' = [ret EXCEPT !.val.requests = @ + 1, !.val.result = "None",
                                  !.val.outcomes = Append(@, "retryable")]
            /\ Return(<<>>)
       ELSE /\ ret' = [ret EXCEPT !.val.requests = @ + 1,
                                  !.val.outcomes = Append(@, "retryable"),
                                  !.val.retries = Append(@, ret.val.attempt + 1),
                                  !.val.sleeps = @ + 1,
                                  !.val.attempt = @ + 1]
            /\ UNCHANGED <<pc, characters, todo>>
    /\ UNCHANGED <<character, dataset, previous_data, args, wiki, files, all_file,
                   manifest, attempt, runs, run_start, prev_out, same_inputs>>

\* lines 158-191: any other RequestException (network failure, 5xx, 429)
RequestRetryable ==
    /\ pc = "fetching"
    /\ IF ret.val.attempt >= ret.val.max_retries
       THEN /\ ret' = [ret EXCEPT !.val.requests = @ + 1, !.val.result = "None",
                                  !.val.outcomes = Append(@, "retryable")]
            /\ Return(<<>>)
       ELSE /\ ret' = [ret EXCEPT !.val.requests = @ + 1,
                                  !.val.outcomes = Append(@, "retryable"),
                                  !.val.retries = Append(@, ret.val.attempt + 1),
                                  !.val.sleeps = @ + 1,
                                  !.val.attempt = @ + 1]
            /\ UNCHANGED <<pc, characters, todo>>
    /\ UNCHANGED <<character, dataset, previous_data, args, wiki, files, all_file,
                   manifest, attempt, runs, run_start, prev_out, same_inputs>>

\* lines 296-302: to_fetch is exhausted, the stats are returned to main
LoopEnd ==
    /\ pc = "loop"
    /\ todo = {}
    /\ pc' = "loop_done"
    /\ UNCHANGED <<previous_data, args, characters, wiki, files, all_file, manifest,
                   todo, attempt, runs, run_start, prev_out, same_inputs, harnessVars>>

FetchNext ==
    \/ StartFlavorLoop
    \/ BeginFetch
    \/ CallFetchWithRetry
    \/ RequestOk
    \/ RequestOversized
    \/ RequestClientError
    \/ RequestRetryable
    \/ LoopEnd

SpecFetch == FetchInit /\ [][FetchNext]_vars

\* the loops are sequential code and every request returns or times out
SpecFetchLive == SpecFetch /\ WF_vars(FetchNext)

\* C23: whatever way the fetch for one entity fails, the flavor loop goes on
\* to the remaining entities of the batch and the run continues: the loop is
\* never left while an entity is still to be fetched.
C23_FailuresNeverAbortBatch ==
    pc = "raised" => todo = {}

\* a call of fetch_with_retry has been made
CalledFetch == ret.op = "fetch_with_retry"

\* the state of a call of fetch_with_retry is as the claim has it
BoundedRetry ==
    CalledFetch =>
        LET f == ret.val IN
        /\ f.requests <= f.max_retries + 1
        /\ (pc = "fetching") <=> (f.result = "running")
        /\ \A i \in 1..Len(f.outcomes) - 1 : f.outcomes[i] = "retryable"
        /\ (f.result = "response") <=>
              (f.outcomes # <<>> /\ f.outcomes[Len(f.outcomes)] = "ok")
        /\ (f.outcomes # <<>> /\ \A i \in DOMAIN f.outcomes : f.outcomes[i] = "retryable") =>
              IF f.requests = f.max_retries + 1
              THEN f.result = "None"
              ELSE f.result = "running"
        /\ \A i \in DOMAIN f.retries : f.retries[i] = i
        /\ Len(f.retries) = IF f.result = "running" THEN f.requests ELSE f.requests - 1
        /\ f.sleeps = Len(f.retries)

\* C30: fetch_with_retry terminates; it makes at most max_retries + 1
\* requests, returns the response at the first request that succeeds and
\* makes no request after it, returns None when every request failed with a
\* retryable error, and calls on_retry once before each retry with 1, 2, ...
\* in order, never after the last failed request.
C30_BoundedRetry ==
    /\ []BoundedRetry
    /\ (pc = "fetching") ~> (pc # "fetching")

C30_Witness ==
    /\ CalledFetch
    /\ ret.val.caller = "harness"
    /\ ret.val.max_retries = 2
    /\ ret.val.outcomes = <<"retryable", "retryable", "retryable">>
    /\ ret.val.retries = <<1, 2>>
    /\ ret.val.result = "None"

\* the staleness verdict of the flavor category for the entity as loaded
Verdict(id) ==
    needs_flavor_update(load_scraped_characters(all_file)[id],
                        load_previous_character_data(files))

\* the call of update_flavor_for_characters is over
FlavorLoopOver ==
    \/ pc = "loop_done"
    \/ pc = "raised" /\ ret.val.caller = "update_flavor_for_characters"

\* C29: an entity is handed to the fetch collaborator only if its staleness
\* verdict is true, never more than once, and when the call of
\* update_flavor_for_characters is over every entity whose verdict is true
\* has been handed to it exactly once.
C29_PreserveBypassesFetching ==
    \A id \in PipeIds :
        /\ attempt[id].flav <= 1
        /\ attempt[id].flav = 1 => Verdict(id)
        /\ (FlavorLoopOver /\ Verdict(id)) => attempt[id].flav = 1

----------------------------------------------------------------------------
(* The snapshot load over a directory tree: load_previous_character_data   *)
(* file by file, in the order glob("**/*.json") lists them.                *)

\* what json.load makes of a file: an object, an array, or an exception
\* (not JSON, unreadable)
Object(d) == [kind |-> "object", val |-> d]
Array(l) == [kind |-> "array", val |-> l]
LoadError == [kind |-> "error", val |-> <<>>]

DiskRecord(id, ability) ==
    << <<"id", id>>, <<"name", NameOf(id)>>, <<"edition", EditionOf(id)>>,
       <<"ability", ability>> >>

\* a file under the root: its path below the root and what json.load gives
DirEntry(dir, name, parsed) == [dir |-> dir, name |-> name, parsed |-> parsed]

DirEntries ==
    { DirEntry("tb", "a.json", Object(DiskRecord("a", "A1"))),
      DirEntry("bmr/old", "a.json", Object(DiskRecord("a", "A2"))),
      DirEntry("bmr", "b.json", Object(DiskRecord("b", "B1"))),
      DirEntry("tb", "c.json", LoadError),
      DirEntry("tb", "d.json", Array(<<DiskRecord("d", "D1")>>)),
      DirEntry("tb", "e.json", Object(<< <<"name", "E">> >>)),
      DirEntry("", "all_characters.json",
               Array(<<DiskRecord("a", "A1"), DiskRecord("b", "B1")>>)),
      DirEntry("tb", "all_characters.json", Object(DiskRecord("z", "Z1"))) }

MaxListed == 3

\* the listings of at most MaxListed files, no path twice
Listings ==
    UNION { {l \in [1..n -> DirEntries] : \A i, j \in 1..n : i # j => l[i] # l[j]} :
            n \in 0..MaxListed }

\* the loop of lines 44-55 stopped by the first file that does not load
load_previous_character_data_StopsAtError(exists, listing) ==
    LET RECURSIVE Loop(_)
        Loop(n) ==
            IF n = 0 THEN [raised |-> FALSE, data |-> <<>>]
            ELSE LET prev == Loop(n - 1)
                     f    == listing[n]
                     id   == Get(f.parsed.val, "id", "")
                 IN  IF prev.raised \/ f.name = "all_characters.json" THEN prev
                     ELSE IF f.parsed.kind # "object" THEN [prev EXCEPT !.raised = TRUE]
                     ELSE IF id = "" THEN prev
                     ELSE [prev EXCEPT !.data =
                              [x \in DOMAIN prev.data \cup {id} |->
                                  IF x = id THEN f.parsed.val ELSE prev.data[x]]]
    IN  IF ~exists THEN [raised |-> FALSE, data |-> <<>>] ELSE Loop(Len(listing))

\* load_previous_character_data(characters_dir): whether it raised, and the
\* dict it returned
load_previous_character_data_glob(exists, listing) ==
    LET RECURSIVE Loop(_)
        Loop(n) ==
            IF n = 0 THEN <<>>
            ELSE LET prev == Loop(n - 1)
                     f    == listing[n]
                     id   == Get(f.parsed.val, "id", "")
                 IN  IF f.name = "all_characters.json" THEN prev
                     ELSE IF f.parsed.kind # "object" THEN prev
                     ELSE IF id = "" THEN prev
                     ELSE [x \in DOMAIN prev \cup {id} |->
                              IF x = id THEN f.parsed.val ELSE prev[x]]
    IN  [raised |-> FALSE,
         data |-> IF ~exists THEN <<>> ELSE Loop(Len(listing))]

\* the characters_dir handed to the load: missing, or holding a listing
Directories ==
    {[exists |-> FALSE, listing |-> <<>>]}
       \cup {[exists |-> TRUE, listing |-> l] : l \in Listings}

LoadInit ==
    /\ dataset \in Directories
    /\ same_inputs = FALSE
    /\ ret = NoCall
    /\ character = <<>>
    /\ previous_data = <<>>
    /\ pc = "harness"
    /\ args = [reminders |-> FALSE, flavor |-> FALSE]
    /\ characters = <<>>
    /\ wiki = <<>>
    /\ files = <<>>
    /\ all_file = <<>>
    /\ manifest = <<>>
    /\ todo = {}
    /\ attempt = <<>>
    /\ runs = 0
    /\ run_start = <<>>
    /\ prev_out = <<>>

CallLoadPreviousCharacterData ==
    /\ ret.op = "none"
    /\ LET r == load_previous_character_data_glob(dataset.exists, dataset.listing) IN
          /\ ret' = [op |-> "load_previous_character_data", val |-> r.raised,
                     before |-> <<>>]
          /\ previous_data' = r.data
    /\ UNCHANGED <<character, dataset, pipeVars>>

LoadNext == CallLoadPreviousCharacterData

SpecLoad == LoadInit /\ [][LoadNext]_vars

\* the files of the listing that hold a well-formed per-entity record
WellFormed ==
    { i \in DOMAIN dataset.listing :
        /\ dataset.listing[i].name # "all_characters.json"
        /\ dataset.listing[i].parsed.kind = "object"
        /\ Get(dataset.listing[i].parsed.val, "id", "") # "" }

\* the id of the record in the i-th file of the listing
IdAt(i) == Get(dataset.listing[i].parsed.val, "id", "")

\* C24: load_previous_character_data does not raise; without the directory
\* it returns the empty map; otherwise its keys are exactly the ids of the
\* well-formed per-entity records under the root, at any depth, no file named
\* all_characters.json is among them, and each id maps to the last
\* well-formed record of that id, whatever the other files hold.
C24_SnapshotLoadTotalSelective ==
    ret.op = "load_previous_character_data" =>
        /\ ret.val = FALSE
        /\ ~dataset.exists => DOMAIN previous_data = {}
        /\ DOMAIN previous_data = {IdAt(i) : i \in WellFormed}
        /\ \A i \in WellFormed :
              (\A j \in WellFormed : IdAt(j) = IdAt(i) => j <= i)
                 => previous_data[IdAt(i)] = dataset.listing[i].parsed.val

C24_Witness ==
    /\ ret.op = "load_previous_character_data"
    /\ dataset.exists
    /\ Len(dataset.listing) = 3
    /\ dataset.listing[1].parsed = LoadError
    /\ dataset.listing[2].name = "all_characters.json"
    /\ dataset.listing[3].dir = "bmr/old"
    /\ DOMAIN previous_data = {"a"}

----------------------------------------------------------------------------
(* Claims about the store and the flavor cache over whole runs.            *)

\* the record of id in all_characters.json (NoRecord when it has none)
Combined(id) ==
    IF \E i \in DOMAIN all_file : Get(all_file[i], "id", "") = id
    THEN all_file[CHOOSE i \in DOMAIN all_file : Get(all_file[i], "id", "") = id]
    ELSE NoRecord

\* the record id had on disk when the run started holds a flavor that is
\* not empty and fails the validity check
PreviousFlavorCorrupted(id) ==
    /\ id \in DOMAIN run_start
    /\ Get(run_start[id], "flavor", <<>>) # <<>>
    /\ ~is_valid_flavor(Get(run_start[id], "flavor", <<>>))

\* C28: when a run with the flavor phase is over, every scraped entity whose
\* previous flavor was non-empty and invalid has, in its per-entity record
\* and in the combined file, the fetched flavor if the wiki gave one and the
\* empty string if the fetch failed.
C28_CorruptedFlavorHealed ==
    (RunDone /\ args.flavor) =>
        \A id \in DOMAIN characters :
            PreviousFlavorCorrupted(id) =>
                LET healed == IF wiki[id].flav.ok THEN wiki[id].flav.val ELSE <<>> IN
                /\ Get(files[id], "flavor", <<>>) = healed
                /\ Get(Combined(id), "flavor", <<>>) = healed

----------------------------------------------------------------------------
(* One run over a store that earlier runs have left: main from its save on. *)

\* the per-entity record an earlier run has left for id: the scraped entity
\* as saved, with the reminders of a reminders phase (rem) and the flavor of
\* a flavor phase (flav) when those have run
StoredRecord(id, ability, rem, flav) ==
    LET saved   == Put(strip_internal_fields_for_hash(ScrapedEntity(id, ability)),
                       "flavor", flav)
        fetched == IF rem
                   THEN Put(Put(Put(saved, "reminders", <<"DEAD">>),
                                "remindersGlobal", <<>>),
                            "_remindersFetched", TRUE)
                   ELSE saved
    IN  order_character_fields(fetched)

StoredRecords(id, rem) ==
    {StoredRecord(id, ab, rem, flav) :
        ab \in AbilitiesOf(id), flav \in {<<>>, FlavorWiki}}

\* the per-entity files of the store: none before the first run; after a
\* run, one for each id a scrape always lists and for any other id listed.
\* The last reminders phase, if there was one, went over every file.
StoredFiles ==
    {<<>>} \cup
    UNION { {fs \in [S -> UNION {StoredRecords(id, rem) : id \in S}] :
                \A id \in S : fs[id] \in StoredRecords(id, rem)} :
            S \in {T \in SUBSET PipeIds : AlwaysListed \subseteq T},
            rem \in BOOLEAN }

\* the combined file and the manifest a run without phases leaves with fs
StoredCombined(fs) ==
    Values([id \in DOMAIN fs |->
               order_character_fields(strip_internal_fields_for_hash(fs[id]))],
           ScrapeOrder)

StoredManifest(fs) ==
    IF DOMAIN fs = {} THEN NoManifest ELSE create_manifest(Values(fs, ScrapeOrder))

\* what the wiki's pages yield to the run: nothing, or reminders and a flavor
StoreWikis ==
    { [id \in PipeIds |-> [rem |-> Failed, flav |-> Failed]],
      [id \in PipeIds |-> [rem |-> Fetched(<<"DEAD">>), flav |-> Fetched(FlavorWiki)]] }

\* main after lines 249-292: the scrape is in memory, the store is as the
\* earlier runs left it
StoreInit ==
    /\ pc = "scraped"
    /\ args \in ArgsSet
    /\ characters \in Scrapes
    /\ wiki \in StoreWikis
    /\ files \in StoredFiles
    /\ all_file = StoredCombined(files)
    /\ manifest = StoredManifest(files)
    /\ todo = {}
    /\ attempt = NoAttempt
    /\ runs = 1
    /\ run_start = files
    /\ prev_out = [combined |-> all_file, hash |-> manifest.contentHash]
    /\ same_inputs = FALSE
    /\ previous_data = IF args.reminders THEN load_previous_character_data(files) ELSE <<>>
    /\ character = <<>>
    /\ ret = NoCall
    /\ dataset = <<>>

StoreNext ==
    \/ Save
    \/ FirstManifest
    \/ \E e \in VALID_EDITIONS : RemindersEdition(e)
    \/ FlavorPhase
    \/ FinalManifest

SpecStore == StoreInit /\ [][StoreNext]_vars

----------------------------------------------------------------------------
(* The store: what save_characters_by_edition keeps, strips and leaves.    *)

\* the record at id's path when the run began, which is the record the save
\* of the run reads back (NoRecord when there is no file)
Existing(id) == IF id \in DOMAIN run_start THEN run_start[id] ELSE NoRecord

\* C25: the entity save_characters_by_edition writes over a record with
\* _remindersFetched true has _remindersFetched true and the reminders and
\* remindersGlobal of that record (an absent list reads as empty, as
\* existing.get does); written over a record with a non-empty flavor it keeps
\* that flavor; and a run without --flavor ends with the previous flavor in
\* the per-entity record and in the combined file (for every saved entity,
\* those with unchanged name and ability included).
C25_SavePreservesCachedData ==
    /\ pc = "saved" =>
          \A id \in DOMAIN characters :
             /\ Get(Existing(id), "_remindersFetched", FALSE) = TRUE =>
                   /\ Get(files[id], "_remindersFetched", FALSE) = TRUE
                   /\ Get(files[id], "reminders", <<"absent">>)
                         = Get(Existing(id), "reminders", <<>>)
                   /\ Get(files[id], "remindersGlobal", <<"absent">>)
                         = Get(Existing(id), "remindersGlobal", <<>>)
             /\ Get(Existing(id), "flavor", <<>>) # <<>> =>
                   Get(files[id], "flavor", <<>>) = Get(Existing(id), "flavor", <<>>)
    /\ (RunDone /\ ~args.flavor) =>
          \A id \in DOMAIN characters :
             Get(Existing(id), "flavor", <<>>) # <<>> =>
                /\ Get(files[id], "flavor", <<>>) = Get(Existing(id), "flavor", <<>>)
                /\ Get(Combined(id), "flavor", <<>>) = Get(Existing(id), "flavor", <<>>)

\* a save has just written over a record that had fetched reminders and a
\* flavor, from a scrape that carries neither
C25_Witness ==
    /\ pc = "saved"
    /\ \E id \in DOMAIN characters :
          /\ Get(Existing(id), "_remindersFetched", FALSE) = TRUE
          /\ Get(Existing(id), "reminders", <<>>) = <<"DEAD">>
          /\ Get(Existing(id), "flavor", <<>>) = FlavorWiki
          /\ Get(files[id], "reminders", <<>>) = <<"DEAD">>
          /\ Get(files[id], "flavor", <<>>) = FlavorWiki

\* C26: after save_characters_by_edition the combined file has exactly one
\* record for each entity of the saved dataset and no other record, no record
\* of it has a key that starts with an underscore, and the only such key a
\* per-entity record of the dataset can have is _remindersFetched.
C26_CombinedFileContent ==
    pc = "saved" =>
        /\ Len(all_file) = Cardinality(DOMAIN characters)
        /\ \A id \in DOMAIN characters :
              Cardinality({i \in DOMAIN all_file : Get(all_file[i], "id", "") = id}) = 1
        /\ \A i \in DOMAIN all_file : Keys(all_file[i]) \cap InternalKeys = {}
        /\ \A id \in DOMAIN characters :
              Keys(files[id]) \cap InternalKeys \subseteq {"_remindersFetched"}

\* a save of two entities that carry _imageUrl, one over a record with
\* fetched reminders: its per-entity record has the flag, the combined not
C26_Witness ==
    /\ pc = "saved"
    /\ Cardinality(DOMAIN characters) = 2
    /\ \A id \in DOMAIN characters : Has(characters[id], "_imageUrl")
    /\ \E id \in DOMAIN characters :
          /\ Has(characters[id], "_remindersFetched")
          /\ Has(files[id], "_remindersFetched")
          /\ ~Has(Combined(id), "_remindersFetched")

\* the ids the manifest's editions index lists
IndexedIds(m) ==
    UNION {Range(m.editions[i][2]) : i \in DOMAIN m.editions}

\* C27: when a run is over, an id that had a record when the run began and
\* is missing from the run's scrape is not in the combined file, not in the
\* manifest's editions index, is not counted in total_characters, and is not
\* in the data the next run loads as its previous state.
C27_StoreIsOverwrite ==
    RunDone =>
        \A id \in DOMAIN run_start \ DOMAIN characters :
           /\ \A i \in DOMAIN all_file : Get(all_file[i], "id", "") # id
           /\ id \notin IndexedIds(manifest)
           /\ manifest.total_characters = Cardinality(DOMAIN characters)
           /\ id \notin DOMAIN load_previous_character_data(files)

----------------------------------------------------------------------------
(* fetch_with_retry: permanent and transient failures.                     *)

\* C31: a request that meets a 4xx status other than 429 is the last request
\* of the call, which returns None with no on_retry call and no sleep for
\* that attempt; a request that meets a 429, a 5xx or a network failure while
\* attempts remain leaves the call running, with on_retry called and the
\* backoff slept, and the call returns None on such a failure only when no
\* attempt remains.
C31_ClientErrorsPermanent ==
    CalledFetch =>
        LET f == ret.val
            n == Len(f.outcomes)
        IN  /\ \A i \in 1..n :
                  f.outcomes[i] = "client_error" =>
                     /\ i = n
                     /\ f.requests = i
                     /\ f.result = "None"
                     /\ pc # "fetching"
                     /\ Len(f.retries) = i - 1
                     /\ f.sleeps = i - 1
            /\ (n > 0 /\ f.outcomes[n] = "retryable") =>
                  IF n <= f.max_retries
                  THEN /\ f.result = "running"
                       /\ pc = "fetching"
                       /\ f.attempt = n
                       /\ Len(f.retries) = n
                       /\ f.sleeps = n
                  ELSE f.result = "None"

\* a call that was retried once and then met a client error with two
\* attempts left
C31_Witness ==
    /\ CalledFetch
    /\ ret.val.max_retries = HTTP_MAX_RETRIES
    /\ ret.val.outcomes = <<"retryable", "client_error">>
    /\ ret.val.retries = <<1>>
    /\ ret.val.sleeps = 1
    /\ ret.val.result = "None"

----------------------------------------------------------------------------
(* The reminder dispatch: lines 715-781 of fetch_reminders_for_edition for *)
(* the list characters_to_fetch, with fetch_wiki_pages_batch one step per  *)
(* task event in async mode and one step per entity in sync mode.          *)

MaxFetchList == 3
MaxBatchSize == 2
MAX_NAME_LENGTH == 100

\* the characters of the model that the class [a-zA-Z0-9\s\-'À-ÿ] admits
WikiNameChars == {"A", "B", "l", "e", " ", "-", "'"}

\* the name checks fetch_wiki_page and fetch_wiki_page_async share
ValidWikiName(name) ==
    /\ name # <<>>
    /\ Len(name) <= MAX_NAME_LENGTH
    /\ \A i \in DOMAIN name : name[i] \in WikiNameChars

\* (char_id, char_name) tuples: d is a stale record of a under another id,
\* c has a name the checks reject
FetchTuples ==
    { <<"a", <<"A", "l">> >>, <<"b", <<"B", "e">> >>, <<"c", <<"<">> >>,
      <<"d", <<"A", "l">> >> }

\* characters_to_fetch: the files of the edition that need a fetch, each once
FetchLists ==
    UNION { {l \in [1..n -> FetchTuples] : \A i, j \in 1..n : l[i] = l[j] => i = j} :
            n \in 0..MaxFetchList }

Page == <<"<html>">>

\* the frame of one dispatch: i is the loop variable of the batch loop,
\* tasks the coroutines of the batch being gathered, value the semaphore's
\* counter, peak the most requests that were out at once, pages the result
\* map of fetch_wiki_pages_batch, sleeps the count of rate-limit sleeps,
\* batches the count of completed batches, results and fetched_count as
\* fetch_reminders_for_edition keeps them
DispatchFrame(mode, chars, batch_size) ==
    [op |-> "fetch_reminders_for_edition",
     val |-> [mode |-> mode, characters_to_fetch |-> chars, batch_size |-> batch_size,
              i |-> 0, tasks |-> <<>>, value |-> batch_size, peak |-> 0,
              pages |-> <<>>,
              sleeps |-> 0, batches |-> 0, slept_last |-> FALSE,
              results |-> <<>>, fetched_count |-> 0, succeeded |-> {}],
     before |-> <<>>]

DispatchInit ==
    /\ ret = NoCall
    /\ character = <<>>
    /\ dataset = <<>>
    /\ previous_data = <<>>
    /\ pc = "idle"
    /\ args = [reminders |-> TRUE, flavor |-> FALSE]
    /\ characters = <<>>
    /\ wiki = <<>>
    /\ files = <<>>
    /\ all_file = <<>>
    /\ manifest = <<>>
    /\ todo = {}
    /\ attempt = <<>>
    /\ runs = 0
    /\ run_start = <<>>
    /\ prev_out = <<>>
    /\ same_inputs = FALSE

DispatchUnchanged ==
    UNCHANGED <<character, dataset, previous_data, args, characters, wiki, files,
                all_file, manifest, todo, attempt, runs, run_start, prev_out,
                same_inputs>>

\* lines 715 and 752: async batch mode if use_async and aiohttp is there,
\* sync mode otherwise, neither when nothing is to be fetched
Dispatch ==
    /\ pc = "idle"
    /\ \E mode \in {"async", "sync"}, chars \in FetchLists, bs \in 1..MaxBatchSize :
          /\ ret' = DispatchFrame(mode, chars, bs)
          /\ pc' = IF chars = <<>> THEN "returned"
                   ELSE IF mode = "async" THEN "batch" ELSE "sync"
    /\ DispatchUnchanged

\* characters[i : i + batch_size]
BatchSlice(chars, i, batch_size) ==
    SubSeq(chars, i + 1, IF i + batch_size < Len(chars) THEN i + batch_size ELSE Len(chars))

\* fetch_wiki_pages_batch, lines 336-348: the tasks of the batch are created
\* and handed to asyncio.gather
StartBatch ==
    /\ pc = "batch"
    /\ LET f     == ret.val
           batch == BatchSlice(f.characters_to_fetch, f.i, f.batch_size)
       IN  ret' = [ret EXCEPT !.val.tasks =
                      [k \in 1..Len(batch) |->
                          [name |-> batch[k][2], st |-> "created", res |-> Failed]]]
    /\ pc' = "gather"
    /\ DispatchUnchanged

\* fetch_wiki_page_async, lines 249-274: a name the checks reject gives
\* (char_name, None) without a request
TaskReject(k) ==
    /\ pc = "gather"
    /\ k \in DOMAIN ret.val.tasks
    /\ ret.val.tasks[k].st = "created"
    /\ ~ValidWikiName(ret.val.tasks[k].name)
    /\ ret' = [ret EXCEPT !.val.tasks[k].st = "done"]
    /\ UNCHANGED pc
    /\ DispatchUnchanged

\* lines 277-279: the semaphore is acquired and the request sent
TaskAcquire(k) ==
    /\ pc = "gather"
    /\ k \in DOMAIN ret.val.tasks
    /\ ret.val.tasks[k].st = "created"
    /\ ValidWikiName(ret.val.tasks[k].name)
    /\ ret.val.value > 0
    /\ ret' = [ret EXCEPT !.val.tasks[k].st = "in_flight", !.val.value = @ - 1,
                          !.val.peak = IF ret.val.batch_size - ret.val.value + 1 > @
                                       THEN ret.val.batch_size - ret.val.value + 1
                                       ELSE @]
    /\ UNCHANGED pc
    /\ DispatchUnchanged

\* lines 279-294: the request ends, with status 200 and a text or with any
\* other status, a timeout or an error; the semaphore is released
TaskComplete(k) ==
    /\ pc = "gather"
    /\ k \in DOMAIN ret.val.tasks
    /\ ret.val.tasks[k].st = "in_flight"
    /\ \E answer \in {Failed, Fetched(Page)} :
          ret' = [ret EXCEPT !.val.tasks[k].st = "done", !.val.tasks[k].res = answer,
                             !.val.value = @ + 1]
    /\ UNCHANGED pc
    /\ DispatchUnchanged

\* storing only the pages that were got
StorePages_DropsNone(pages, tasks) ==
    LET RECURSIVE Loop(_)
        Loop(n) == IF n = 0 THEN pages
                   ELSE IF tasks[n].res.ok
                        THEN Put(Loop(n - 1), tasks[n].name, tasks[n].res)
                        ELSE Loop(n - 1)
    IN  Loop(Len(tasks))

\* results[char_name] = html_content for the batch_results in task order
StorePages(pages, tasks) ==
    LET RECURSIVE Loop(_)
        Loop(n) == IF n = 0 THEN pages
                   ELSE Put(Loop(n - 1), tasks[n].name, tasks[n].res)
    IN  Loop(Len(tasks))

\* lines 733-749: results and fetched_count from the pages, by name
ProcessPages(f, pages) ==
    LET chars == f.characters_to_fetch IN
    [f EXCEPT !.pages = pages,
              !.results = [k \in 1..Len(chars) |->
                              <<chars[k][1],
                                IF Get(pages, chars[k][2], Failed).ok
                                THEN <<"DEAD">> ELSE <<>> >>],
              !.fetched_count = Len(chars),
              !.succeeded = {chars[k][1] : k \in {j \in 1..Len(chars) :
                                                 Get(pages, chars[j][2], Failed).ok}}]

\* lines 350-359: gather returns when every task is done; the pages are
\* stored; the loop sleeps unless this was the last batch, after which
\* fetch_reminders_for_edition processes the pages
GatherDone ==
    /\ pc = "gather"
    /\ \A k \in DOMAIN ret.val.tasks : ret.val.tasks[k].st = "done"
    /\ LET f     == ret.val
           pages == StorePages(f.pages, f.tasks)
           more  == f.i + f.batch_size < Len(f.characters_to_fetch)
           g     == [f EXCEPT !.pages = pages, !.tasks = <<>>, !.batches = @ + 1,
                              !.slept_last = FALSE]
       IN  /\ ret' = [ret EXCEPT !.val = IF more THEN g ELSE ProcessPages(g, pages)]
           /\ pc' = IF more THEN "sleep" ELSE "returned"
    /\ DispatchUnchanged

\* line 359 and the next turn of the loop at line 336
BatchSleep ==
    /\ pc = "sleep"
    /\ ret' = [ret EXCEPT !.val.sleeps = @ + 1, !.val.slept_last = TRUE,
                          !.val.i = @ + ret.val.batch_size]
    /\ pc' = "batch"
    /\ DispatchUnchanged

\* lines 768-781, one turn of the sync loop: get_reminders_for_character,
\* whose fetch_wiki_page raises ValueError for a name the checks reject, then
\* results, fetched_count and the sleep
SyncFetch ==
    /\ pc = "sync"
    /\ LET f     == ret.val
           entry == f.characters_to_fetch[f.i + 1]
       IN  IF ~ValidWikiName(entry[2])
           THEN /\ pc' = "raised"
                /\ UNCHANGED ret
           ELSE \E answer \in {Failed, Fetched(Page)} :
                   /\ ret' = [ret EXCEPT
                                !.val.results = Put(@, entry[1],
                                                    IF answer.ok THEN <<"DEAD">> ELSE <<>>),
                                !.val.fetched_count = @ + 1,
                                !.val.succeeded = IF answer.ok THEN @ \cup {entry[1]} ELSE @,
                                !.val.batches = @ + 1,
                                !.val.sleeps = @ + 1,
                                !.val.slept_last = TRUE,
                                !.val.i = @ + 1]
                   /\ pc' = IF f.i + 1 < Len(f.characters_to_fetch) THEN "sync"
                            ELSE "returned"
    /\ DispatchUnchanged

DispatchNext ==
    \/ Dispatch
    \/ StartBatch
    \/ \E k \in 1..MaxBatchSize : TaskReject(k)
    \/ \E k \in 1..MaxBatchSize : TaskAcquire(k)
    \/ \E k \in 1..MaxBatchSize : TaskComplete(k)
    \/ GatherDone
    \/ BatchSleep
    \/ SyncFetch

SpecDispatch == DispatchInit /\ [][DispatchNext]_vars

CalledDispatch == ret.op = "fetch_reminders_for_edition"

\* the requests of the batch that are out
InFlight == {k \in DOMAIN ret.val.tasks : ret.val.tasks[k].st = "in_flight"}

\* C32: while fetch_wiki_pages_batch runs, the requests in flight are never
\* more than batch_size and each holds a slot of the semaphore; and when it
\* has returned, the result map has exactly one entry for the name of every
\* character requested, a page or None, and no other entry.
C32_ConcurrencyCap ==
    (CalledDispatch /\ ret.val.mode = "async") =>
        LET f == ret.val IN
        /\ Cardinality(InFlight) <= f.batch_size
        /\ f.peak <= f.batch_size
        /\ f.value = f.batch_size - Cardinality(InFlight)
        /\ pc # "gather" => InFlight = {}
        /\ pc = "returned" =>
              /\ \A k \in DOMAIN f.characters_to_fetch :
                    Cardinality({j \in DOMAIN f.pages :
                                    f.pages[j][1] = f.characters_to_fetch[k][2]}) = 1
              /\ \A j \in DOMAIN f.pages :
                    /\ \E k \in DOMAIN f.characters_to_fetch :
                          f.characters_to_fetch[k][2] = f.pages[j][1]
                    /\ f.pages[j][2] \in {Failed, Fetched(Page)}

\* a call that has returned after two batches, the first with batch_size
\* requests out at once, with a page for one name and None for another
C32_Witness ==
    /\ CalledDispatch
    /\ ret.val.mode = "async"
    /\ pc = "returned"
    /\ ret.val.batch_size = 2
    /\ ret.val.peak = 2
    /\ ret.val.batches = 2
    /\ \E j, k \in DOMAIN ret.val.pages :
          /\ ret.val.pages[j][2] = Failed
          /\ ret.val.pages[k][2] = Fetched(Page)

\* C33: in every dispatch, async or sync, the next batch of requests starts
\* only when the previous batch has fully completed and the rate-limit delay
\* after it has elapsed, there is one delay between two successive batches,
\* and there is no delay after the final batch.
C33_RateLimitPlacement ==
    CalledDispatch =>
        LET f == ret.val IN
        /\ pc # "gather" => InFlight = {}
        /\ (pc \in {"batch", "sync"} /\ f.batches > 0) => f.slept_last
        /\ pc \in {"batch", "sync", "gather"} => f.sleeps = f.batches
        /\ (pc = "returned" /\ f.batches > 0) =>
              /\ f.sleeps = f.batches - 1
              /\ ~f.slept_last

\* C39: when the reminder dispatch has returned, an entity is counted as
\* fetched only if its fetch succeeded, so the fetched count is the number of
\* the entities whose page was got; an entity whose fetch failed is counted
\* as failed, not as fetched.
C39_SummaryPartitions ==
    (CalledDispatch /\ pc = "returned") =>
        ret.val.fetched_count = Cardinality(ret.val.succeeded)

----------------------------------------------------------------------------
(* The consumer's update check: examples/update_checker.py.                *)

\* Python's None where a str is expected (dict.get of an absent key)
PyNone == "None"

\* manifests as JSON objects: version and contentHash present or not
CheckedManifests ==
    { (IF v = PyNone THEN <<>> ELSE << <<"version", v>> >>)
         \o (IF h = PyNone THEN <<>> ELSE << <<"contentHash", h>> >>) :
      v \in {PyNone, "v1", "v2"}, h \in {PyNone, "", "h1", "h2"} }

\* manifest.json in the data directory: missing, not JSON, or an object
LocalFiles ==
    {[kind |-> "missing", val |-> <<>>], [kind |-> "malformed", val |-> <<>>]}
        \cup {[kind |-> "json", val |-> m] : m \in CheckedManifests}

\* what the two places the remote manifest is looked for at answer: the raw
\* URL, and the manifest.json asset of the latest release
RemoteSources ==
    [raw : {Failed} \cup {Fetched(m) : m \in CheckedManifests},
     release : {Failed, Fetched(<< <<"version", "v2">>, <<"contentHash", "h2">> >>)}]

get_local_manifest(file) ==
    IF file.kind = "json" THEN Fetched(file.val) ELSE Failed

get_remote_manifest(sources) ==
    IF sources.raw.ok THEN sources.raw ELSE sources.release

\* bool(x) of an Optional[dict]: None and {} are false
Truthy(m) == m.ok /\ m.val # <<>>

\* bool(x) of a hash read with dict.get
HashGiven(h) == h # PyNone /\ h # ""

\* check_for_update comparing the version stamps whatever the hashes are
check_for_update_ByVersion(local, remote) ==
    LET local_version  == IF Truthy(local) THEN Get(local.val, "version", PyNone) ELSE PyNone
        local_hash     == IF Truthy(local) THEN Get(local.val, "contentHash", PyNone) ELSE PyNone
        remote_version == IF Truthy(remote) THEN Get(remote.val, "version", PyNone) ELSE PyNone
        remote_hash    == IF Truthy(remote) THEN Get(remote.val, "contentHash", PyNone) ELSE PyNone
    IN  [update_available |->
             IF ~Truthy(local) THEN remote.ok
             ELSE IF ~Truthy(remote) THEN FALSE
             ELSE local_version # remote_version,
         local_version |-> local_version, remote_version |-> remote_version,
         local_hash |-> local_hash, remote_hash |-> remote_hash]

check_for_update(local, remote) ==
    LET local_version  == IF Truthy(local) THEN Get(local.val, "version", PyNone) ELSE PyNone
        local_hash     == IF Truthy(local) THEN Get(local.val, "contentHash", PyNone) ELSE PyNone
        remote_version == IF Truthy(remote) THEN Get(remote.val, "version", PyNone) ELSE PyNone
        remote_hash    == IF Truthy(remote) THEN Get(remote.val, "contentHash", PyNone) ELSE PyNone
    IN  [update_available |->
             IF ~Truthy(local) THEN remote.ok
             ELSE IF ~Truthy(remote) THEN FALSE
             ELSE IF HashGiven(local_hash) /\ HashGiven(remote_hash)
                  THEN local_hash # remote_hash
                  ELSE local_version # remote_version,
         local_version |-> local_version, remote_version |-> remote_version,
         local_hash |-> local_hash, remote_hash |-> remote_hash]

UpdateInit ==
    /\ dataset \in [file : LocalFiles, sources : RemoteSources]
    /\ ret = NoCall
    /\ character = <<>>
    /\ previous_data = <<>>
    /\ PipeIdle

CallCheckForUpdate ==
    /\ ret.op = "none"
    /\ ret' = [op |-> "check_for_update",
               val |-> check_for_update(get_local_manifest(dataset.file),
                                        get_remote_manifest(dataset.sources)),
               before |-> <<>>]
    /\ UNCHANGED <<character, dataset, previous_data, pipeVars>>

UpdateNext == CallCheckForUpdate

SpecUpdate == UpdateInit /\ [][UpdateNext]_vars

CalledCheck == ret.op = "check_for_update"

LocalManifest == get_local_manifest(dataset.file)
RemoteManifest == get_remote_manifest(dataset.sources)

\* (a) of the claim: both manifests exist with content hashes that differ
HashesDiffer ==
    /\ Truthy(LocalManifest) /\ Truthy(RemoteManifest)
    /\ HashGiven(Get(LocalManifest.val, "contentHash", PyNone))
    /\ HashGiven(Get(RemoteManifest.val, "contentHash", PyNone))
    /\ Get(LocalManifest.val, "contentHash", PyNone)
          # Get(RemoteManifest.val, "contentHash", PyNone)

\* (b) of the claim: no usable local manifest, and a remote one was fetched
NothingLocal == ~Truthy(LocalManifest) /\ RemoteManifest.ok

\* both manifests exist, a content hash is missing, the version stamps differ
VersionsDiffer ==
    /\ Truthy(LocalManifest) /\ Truthy(RemoteManifest)
    /\ ~(/\ HashGiven(Get(LocalManifest.val, "contentHash", PyNone))
         /\ HashGiven(Get(RemoteManifest.val, "contentHash", PyNone)))
    /\ Get(LocalManifest.val, "version", PyNone)
          # Get(RemoteManifest.val, "version", PyNone)

\* C34 as stated: check_for_update reports update_available true exactly
\* when both manifests exist with content hashes that differ, or no usable
\* local manifest exists and a remote manifest was fetched.
C34_AsStated ==
    CalledCheck => (ret.val.update_available <=> (HashesDiffer \/ NothingLocal))

\* C34: check_for_update reports update_available true exactly when both
\* manifests exist with content hashes that differ, or no usable local
\* manifest exists and a remote manifest was fetched, or both manifests
\* exist, one of them has no content hash, and their version stamps differ;
\* so it reports false when the remote manifest cannot be fetched, and when
\* both hashes exist and are equal, whatever the version stamps.
C34_UpdateCheck ==
    CalledCheck =>
        /\ ret.val.update_available <=> (HashesDiffer \/ NothingLocal \/ VersionsDiffer)
        /\ ~RemoteManifest.ok => ~ret.val.update_available
        /\ (/\ HashGiven(ret.val.local_hash)
            /\ ret.val.local_hash = ret.val.remote_hash) => ~ret.val.update_available

\* the check has run on equal hashes under different version stamps
C34_Witness ==
    /\ CalledCheck
    /\ ret.val.local_hash = "h1"
    /\ ret.val.remote_hash = "h1"
    /\ ret.val.local_version = "v1"
    /\ ret.val.remote_version = "v2"
    /\ ~ret.val.update_available

----------------------------------------------------------------------------
(* Whole runs: what the flavor phase compares with, and what it leaves.    *)

\* the entity's record before the run and its scrape differ in name or ability
ChangedUpstream(id) ==
    /\ id \in DOMAIN run_start
    /\ id \in DOMAIN characters
    /\ \/ Get(run_start[id], "ability", "") # Get(characters[id], "ability", "")
       \/ Get(run_start[id], "name", "") # Get(characters[id], "name", "")

\* C35: in a run with flavor fetching, the flavor of an entity whose name
\* or ability differs from its record of before the run is fetched again in
\* this run, a valid cached flavor notwithstanding: the record compared with
\* is the one on disk before the run wrote anything.
C35_FlavorStalenessPreRun ==
    (RunDone /\ args.flavor) =>
        \A id \in DOMAIN characters :
            ChangedUpstream(id) => attempt[id].flav # "none"

\* the reminder data of a per-entity record
ReminderFields(rec) ==
    [reminders |-> Get(rec, "reminders", <<"absent">>),
     remindersGlobal |-> Get(rec, "remindersGlobal", <<"absent">>),
     fetched |-> Has(rec, "_remindersFetched") /\ Get(rec, "_remindersFetched", FALSE)]

\* C36: the flavor phase leaves the reminders, remindersGlobal and
\* _remindersFetched of every per-entity record as the reminder phase left
\* them; and no step of any run takes _remindersFetched away from a record
\* that has it while the entity's name and ability are unchanged.
C36_FlavorKeepsReminders ==
    [][/\ pc = "flavor" =>
             \A id \in DOMAIN files : ReminderFields(files'[id]) = ReminderFields(files[id])
       /\ \A id \in DOMAIN files :
             (/\ ReminderFields(files[id]).fetched
              /\ Get(files'[id], "name", "") = Get(files[id], "name", "")
              /\ Get(files'[id], "ability", "") = Get(files[id], "ability", ""))
                => ReminderFields(files'[id]).fetched]_vars

\* C37: when a run is over, the record of every entity of the run in
\* all_characters.json is the entity's per-entity record without its
\* internal fields, the reminders and the flavor merged during the run
\* included.
C37_CombinedAgreesWithRecords ==
    RunDone =>
        \A id \in DOMAIN characters :
            DictEq(Combined(id), strip_internal_fields(files[id], FALSE))

----------------------------------------------------------------------------
(* The distribution package: package_data, then verify_package, with the   *)
(* package edited in between or not.                                       *)

\* all_characters.json as a run of the pipeline leaves it
PackageInputs == {StoredCombined(fs) : fs \in StoredFiles \ {<<>>}}

\* other values a public field of a record of the model can be given
OtherValues(key) ==
    IF key = "id" THEN {"a", "b", "z"}
    ELSE IF key = "name" THEN {"Alpha", "Beta", "Zeta"}
    ELSE IF key = "edition" THEN {"tb", "bmr"}
    ELSE IF key = "ability" THEN {"A1", "A2", "B1"}
    ELSE IF key = "flavor" THEN {<<>>, FlavorWiki, FlavorShort}
    ELSE {<<>>, <<"DEAD">>, <<"DEAD", "DEAD">>}

PackageInit ==
    /\ pc = "idle"
    /\ all_file \in PackageInputs
    /\ dataset = <<>>
    /\ manifest = NoManifest
    /\ ret = NoCall
    /\ character = <<>>
    /\ previous_data = <<>>
    /\ args = [reminders |-> FALSE, flavor |-> FALSE]
    /\ characters = <<>>
    /\ wiki = <<>>
    /\ files = <<>>
    /\ todo = {}
    /\ attempt = <<>>
    /\ runs = 0
    /\ run_start = <<>>
    /\ prev_out = <<>>
    /\ same_inputs = FALSE

PackageUnchanged ==
    UNCHANGED <<character, previous_data, args, characters, wiki, files, all_file,
                todo, attempt, runs, run_start, prev_out, same_inputs>>

\* package_data: characters.json is the list load_all_characters read, then
\* create_dist_manifest writes manifest.json, or raises before it does
PackageData ==
    /\ pc = "idle"
    /\ dataset' = all_file
    /\ LET m == create_dist_manifest(all_file) IN
          IF m = KeyError
          THEN /\ pc' = "raised"
               /\ UNCHANGED manifest
          ELSE /\ pc' = "packaged"
               /\ manifest' = m
    /\ UNCHANGED ret
    /\ PackageUnchanged

\* a public field of a record of characters.json is given another value
EditPackage ==
    /\ pc = "packaged"
    /\ \E i \in DOMAIN dataset :
          \E key \in Keys(dataset[i]) \ InternalKeys :
             \E v \in OtherValues(key) \ {Get(dataset[i], key, <<>>)} :
                dataset' = [dataset EXCEPT ![i] = Put(@, key, v)]
    /\ pc' = "edited"
    /\ UNCHANGED <<ret, manifest>>
    /\ PackageUnchanged

\* verify_package on the package directory
VerifyPackage ==
    /\ pc \in {"packaged", "edited"}
    /\ ret' = [op |-> "verify_package", val |-> verify_package(manifest, dataset),
               before |-> pc]
    /\ pc' = "verified"
    /\ UNCHANGED <<dataset, manifest>>
    /\ PackageUnchanged

PackageNext ==
    \/ PackageData
    \/ EditPackage
    \/ VerifyPackage

SpecPackage == PackageInit /\ [][PackageNext]_vars

\* C38: verify_package right after package_data returns true; after any
\* public field of any record of characters.json has been given another
\* value it returns false.
C38_PackageRoundTrip ==
    ret.op = "verify_package" =>
        /\ ret.before = "packaged" => ret.val = TRUE
        /\ ret.before = "edited" => ret.val = FALSE

\* a package of two records with reminders and flavor was written, one of
\* its public fields was edited, and verify_package refused it
C38_Witness ==
    /\ ret.op = "verify_package"
    /\ ret.before = "edited"
    /\ ret.val = FALSE
    /\ Len(dataset) = 2
    /\ Len(all_file) = 2
    /\ Get(all_file[1], "flavor", <<>>) = FlavorWiki
    /\ Get(all_file[1], "reminders", <<>>) = <<"DEAD">>

====
